---- MODULE Spec2Model ----
(***************************************************************************)
(* Model of the lyra diff-analysis engine (rhythmicai/lyra).               *)
(*                                                                         *)
(* JavaScript strings are TLA+ strings; a character is a string of length  *)
(* one, read with SubSeq(s, i, i).  Regular expressions are modelled by    *)
(* position-set matchers: a matcher maps a set of positions (1-based index *)
(* of the next character to read) to the set of positions the pattern can  *)
(* end at.  JavaScript numbers that are quotients are exact rationals      *)
(* <<numerator, denominator>> in lowest terms.                             *)
(*                                                                         *)
(* LetIn(e, LAMBDA x : body) is the model's "const x = e; body": e is      *)
(* evaluated once, whatever the number of uses of x in body.               *)
(***************************************************************************)
EXTENDS Integers, Sequences, FiniteSets, TLC

VARIABLES
    pc,              \* the operation in progress or completed ("start": none yet)
    \* CodeQualityTools.analyzeCodeQuality
    diffContent,     \* the diff text passed in
    language,        \* the language hint ("" when absent)
    files,           \* the files parseDiffFiles returned
    metrics,         \* the CodeQualityMetrics returned
    \* AnalysisTools.generateCodeQualityAnalysis / generateAnalysisResult
    prs,             \* the GitHubPR[] passed in
    prMetrics,       \* the Record<string, PRMetrics> passed in
    activityData,    \* the activity overview passed in (Undefined when absent)
    analysis,        \* the summary or AnalysisResult returned
    \* PerformanceAnalysisTools.generatePerformanceInsights
    issues,          \* the PerformanceIssues passed in
    insights,        \* the {findings, recommendations, risks} returned
    \* AnalysisTools.enrichWithCodeQuality and GitHubAnalystAgent._analyzePRs
    selectedPRs,     \* state.selectedPRs
    prAnalysis,      \* the prAnalysis record _analyzePRs fills
    enrichedMetrics, \* the enrichedMetrics record enrichWithCodeQuality fills
    cursor,          \* how many entries the running loop has processed
    warnings,        \* what console.warn has been called for, in order
    \* AnalysisTools.selectPRs and the workflow of GitHubAnalystAgent.analyze
    prSelection,     \* config.prSelection, the selection criteria
    node,            \* the node of the graph to run next ("": no workflow runs)
    agentState,      \* the other channels of the graph's state
    \* DocumentationTools.analyzeTypeScriptDocs
    docContent,      \* the content of the file passed in
    docAnalysis,     \* the FileDocAnalysis returned
    \* GitHubAnalystAgent._saveResults
    reportFiles,     \* the files written, in the order they were written
    \* GitHubTools.retryWithBackoff
    retryPhase,      \* where the call is: at the loop, awaiting fn, sleeping, settled
    attempt,         \* the loop variable i
    retryDelay,      \* delay: the next sleep, in milliseconds
    outcomes,        \* how the invocations of fn settled, in order
    waits,           \* the delays slept, in order
    retryResult      \* what the call returned or threw

cqVars == <<diffContent, language, files, metrics>>
aggVars == <<prs, prMetrics, activityData, analysis>>
perfVars == <<issues, insights>>
batchVars == <<selectedPRs, prAnalysis, enrichedMetrics, cursor, warnings>>

flowVars == <<prSelection, node, agentState>>

docVars == <<docContent, docAnalysis>>

retryVars == <<retryPhase, attempt, retryDelay, outcomes, waits, retryResult>>

moreVars == <<docVars, reportFiles, retryVars>>

vars == <<pc, cqVars, aggVars, perfVars, batchVars, flowVars, moreVars>>

\* no value yet
NoResult == "none"

\* undefined, for a value that is an object when present: it has no field
Undefined == << >>

LetIn(e, F(_)) == CHOOSE r \in { F(x) : x \in {e} } : TRUE

(***************************************************************************)
(* Strings                                                                 *)
(***************************************************************************)
Ch(s, i) == SubSeq(s, i, i)

Min(a, b) == IF a < b THEN a ELSE b
Max(a, b) == IF a > b THEN a ELSE b

SetMin(S) == CHOOSE m \in S : \A o \in S : m <= o
SetMax(S) == CHOOSE m \in S : \A o \in S : m >= o

\* s.substring(i - 1): the suffix from position i
From(s, i) == IF i > Len(s) THEN "" ELSE SubSeq(s, i, Len(s))

\* whether w occurs in s at position p
At(s, p, w) ==
    /\ p >= 1
    /\ p + Len(w) - 1 <= Len(s)
    /\ SubSeq(s, p, p + Len(w) - 1) = w

\* String.prototype.startsWith
StartsWith(s, w) == At(s, 1, w)

\* String.prototype.includes
Includes(s, w) == \E p \in 1..(Len(s) + 1) : At(s, p, w)

\* the positions of the occurrences of the character c in s
Positions(s, c) == { p \in 1..Len(s) : Ch(s, p) = c }

\* (s.match(/c/g) || []).length for a one-character pattern c
CountChar(s, c) == Cardinality(Positions(s, c))

\* the elements of a set of numbers in increasing order
Ascending(S) ==
    [k \in 1..Cardinality(S) |-> CHOOSE p \in S : Cardinality({ q \in S : q <= p }) = k]

\* the pieces of s between the separator positions seps, in order
Pieces(s, seps) ==
    LetIn(<< 0 >> \o Ascending(seps) \o << Len(s) + 1 >>, LAMBDA cuts :
        [k \in 1..(Len(cuts) - 1) |->
            IF cuts[k] + 1 > cuts[k + 1] - 1 THEN ""
            ELSE SubSeq(s, cuts[k] + 1, cuts[k + 1] - 1)])

\* String.prototype.split(sep) for a one-character separator: always at
\* least one piece
Split(text, sep) ==
    LetIn(text, LAMBDA s : LetIn(Positions(s, sep), LAMBDA seps : Pieces(s, seps)))

RECURSIVE JoinFrom(_, _, _)
JoinFrom(pieces, sep, k) ==
    IF k > Len(pieces) THEN ""
    ELSE IF k = Len(pieces) THEN pieces[k]
    ELSE pieces[k] \o sep \o JoinFrom(pieces, sep, k + 1)

\* Array.prototype.join
Join(list, sep) == LetIn(list, LAMBDA pieces : JoinFrom(pieces, sep, 1))

\* the characters \s matches (those the model's texts use)
SpaceChars == {" ", "\t", "\n", "\r"}

\* the characters \w matches
WordChars ==
    {"a","b","c","d","e","f","g","h","i","j","k","l","m","n","o","p","q","r",
     "s","t","u","v","w","x","y","z","A","B","C","D","E","F","G","H","I","J",
     "K","L","M","N","O","P","Q","R","S","T","U","V","W","X","Y","Z","0","1",
     "2","3","4","5","6","7","8","9","_"}

\* String.prototype.trim
Trim(text) ==
    LetIn(text, LAMBDA s :
        LetIn({ p \in 1..Len(s) : Ch(s, p) \notin SpaceChars },
              LAMBDA solid : IF solid = {} THEN ""
                             ELSE SubSeq(s, SetMin(solid), SetMax(solid))))

RECURSIVE SumFrom(_, _)
SumFrom(seq, k) == IF k > Len(seq) THEN 0 ELSE seq[k] + SumFrom(seq, k + 1)

\* the sum of a sequence of integers
SumSeq(list) == LetIn(list, LAMBDA seq : SumFrom(seq, 1))

RECURSIVE FlattenFrom(_, _)
FlattenFrom(seqs, k) == IF k > Len(seqs) THEN << >> ELSE seqs[k] \o FlattenFrom(seqs, k + 1)

\* the concatenation of a sequence of sequences
Flatten(list) == LetIn(list, LAMBDA seqs : FlattenFrom(seqs, 1))

\* the elements of a sequence that satisfy Keep, in order (Array.prototype.filter)
Filter(list, Keep(_)) == LetIn(list, LAMBDA seq : SelectSeq(seq, Keep))

\* the first occurrence of every element, in order: what a Set or the keys of
\* a Map keep
RECURSIVE DedupFrom(_, _, _)
DedupFrom(seq, k, kept) ==
    IF k > Len(seq) THEN kept
    ELSE LetIn(IF \E j \in 1..Len(kept) : kept[j] = seq[k] THEN kept
               ELSE Append(kept, seq[k]),
               LAMBDA next : DedupFrom(seq, k + 1, next))

Dedup(list) == LetIn(list, LAMBDA seq : DedupFrom(seq, 1, << >>))

(***************************************************************************)
(* Regular expressions as position-set matchers.  A matcher M(s, P) is     *)
(* applied to a string s that is already a value.                          *)
(***************************************************************************)
\* a literal
ReLit(s, P, w) == { p + Len(w) : p \in { q \in P : At(s, q, w) } }

\* one character of a class; neg is TRUE for a negated class [^...]
InClass(c, class, neg) == IF neg THEN c \notin class ELSE c \in class

ReOne(s, P, class, neg) ==
    { p + 1 : p \in { q \in P : q <= Len(s) /\ InClass(Ch(s, q), class, neg) } }

\* class*: zero or more characters of a class
ReStar(s, P, class, neg) ==
    UNION { p..SetMin({ k \in p..Len(s) : ~InClass(Ch(s, k), class, neg) }
                      \cup {Len(s) + 1}) : p \in P }

\* class+
RePlus(s, P, class, neg) == ReStar(s, ReOne(s, P, class, neg), class, neg)

\* \b: between a word character and a non-word character (or an end)
IsWordAt(s, p) == p >= 1 /\ p <= Len(s) /\ Ch(s, p) \in WordChars

ReBoundary(s, P) == { p \in P : IsWordAt(s, p - 1) # IsWordAt(s, p) }

\* RegExp.prototype.test for an unanchored pattern M: a match may start anywhere
ReTest(M(_, _), text) == LetIn(text, LAMBDA s : M(s, 1..(Len(s) + 1)) # {})

\* where the leftmost match of M in s at or after position from starts (0: none)
ReFirst(M(_, _), s, from) ==
    LetIn({ p \in from..(Len(s) + 1) : M(s, {p}) # {} },
          LAMBDA starts : IF starts = {} THEN 0 ELSE SetMin(starts))

\* (s.match(/M/g) || []).length: the matches are taken left to right, each
\* search resuming where the previous match ended.  Every /g pattern of the
\* engine has one possible end per start and matches no empty string.
ReCount(M(_, _), text) ==
    LetIn(text, LAMBDA s :
        LET count[from \in 1..(Len(s) + 2)] ==
                LetIn(ReFirst(M, s, from),
                      LAMBDA st : IF st = 0 THEN 0 ELSE 1 + count[SetMax(M(s, {st}))])
        IN  IF M(s, 1..(Len(s) + 1)) = {} THEN 0 ELSE count[1])

(***************************************************************************)
(* DiffParser: parseDiffFiles                                              *)
(***************************************************************************)
\* the characters . does not match
LineTerminators == {"\n", "\r"}

\* /diff --git a\/(.+) b\/(.+)/ from the start st: the positions at which the
\* second group can begin
HeaderGroup2(line, st) ==
    { g \in ReLit(line,
                  RePlus(line, ReLit(line, {st}, "diff --git a/"), LineTerminators, TRUE),
                  " b/") :
        ReOne(line, {g}, LineTerminators, TRUE) # {} }

HeaderRegex(line, P) ==
    UNION { RePlus(line, HeaderGroup2(line, st), LineTerminators, TRUE) : st \in P }

\* match[2] of line.match(/diff --git a\/(.+) b\/(.+)/) for a line the pattern
\* matches; both groups are greedy, so the second one begins after the last
\* " b/" that leaves it a character and runs to the end of the line
HeaderPath(line) ==
    LetIn(SetMax(HeaderGroup2(line, ReFirst(HeaderRegex, line, 1))),
          LAMBDA g : SubSeq(line, g,
                            SetMax(RePlus(line, {g}, LineTerminators, TRUE)) - 1))

NewFile(path) == [path |-> path, content |-> "", additions |-> << >>]

\* the loop's state before any line is read: objs are the file objects
\* created so far, pushed the indices of the objects pushed to `files`
\* (an object pushed while it is still current keeps changing), currentFile
\* the index of the current object (0: null)
ParseStart == [objs |-> << >>, pushed |-> << >>, currentFile |-> 0, inFile |-> FALSE]

\* files.push(currentFile) when there is a current file
PushCurrent(st) ==
    IF st.currentFile # 0 THEN Append(st.pushed, st.currentFile) ELSE st.pushed

\* ParseLine with the deleted and the unchanged lines of a file taken for
\* added ones
ParseLineKeepingAll(st, line) ==
    IF StartsWith(line, "diff --git")
    THEN IF ReTest(HeaderRegex, line)
         THEN [objs        |-> Append(st.objs, NewFile(HeaderPath(line))),
               pushed      |-> PushCurrent(st),
               currentFile |-> Len(st.objs) + 1,
               inFile      |-> TRUE]
         ELSE [st EXCEPT !.pushed = PushCurrent(st)]
    ELSE IF StartsWith(line, "+++") \/ StartsWith(line, "---") \/ StartsWith(line, "@@")
    THEN st
    ELSE IF st.inFile /\ st.currentFile # 0
    THEN [st EXCEPT
            !.objs[st.currentFile].content = @ \o line \o "\n",
            !.objs[st.currentFile].additions = Append(@, From(line, 2))]
    ELSE st

\* one iteration of the loop over diffLines
ParseLine(st, line) ==
    IF StartsWith(line, "diff --git")
    THEN IF ReTest(HeaderRegex, line)
         THEN [objs        |-> Append(st.objs, NewFile(HeaderPath(line))),
               pushed      |-> PushCurrent(st),
               currentFile |-> Len(st.objs) + 1,
               inFile      |-> TRUE]
         ELSE [st EXCEPT !.pushed = PushCurrent(st)]
    ELSE IF StartsWith(line, "+++") \/ StartsWith(line, "---") \/ StartsWith(line, "@@")
    THEN st
    ELSE IF st.inFile /\ st.currentFile # 0
    THEN [st EXCEPT
            !.objs[st.currentFile].content = @ \o line \o "\n",
            !.objs[st.currentFile].additions =
                IF StartsWith(line, "+") /\ ~StartsWith(line, "+++")
                THEN Append(@, From(line, 2))
                ELSE @]
    ELSE st

RECURSIVE ParseLines(_, _, _)
ParseLines(st, diffLines, k) ==
    IF k > Len(diffLines) THEN st
    ELSE LetIn(ParseLine(st, diffLines[k]),
               LAMBDA next : ParseLines(next, diffLines, k + 1))

\* parseDiffFiles(diffContent): Array<{path, content, additions}>
parseDiffFiles(text) ==
    LetIn(Split(text, "\n"), LAMBDA diffLines :
        LetIn(ParseLines(ParseStart, diffLines, 1), LAMBDA end :
            LetIn(PushCurrent(end), LAMBDA pushed :
                [i \in 1..Len(pushed) |-> end.objs[pushed[i]]])))

(***************************************************************************)
(* FunctionExtractor: getLanguageFromPath, getFunctionRegex,               *)
(* extractFunctions                                                        *)
(***************************************************************************)
UpperCase == "ABCDEFGHIJKLMNOPQRSTUVWXYZ"
LowerCase == "abcdefghijklmnopqrstuvwxyz"

LowerChar(c) ==
    LetIn(Positions(UpperCase, c),
          LAMBDA up : IF up = {} THEN c ELSE Ch(LowerCase, SetMin(up)))

RECURSIVE LowerFrom(_, _)
LowerFrom(s, k) == IF k > Len(s) THEN "" ELSE LowerChar(Ch(s, k)) \o LowerFrom(s, k + 1)

\* String.prototype.toLowerCase
ToLowerCase(text) == LetIn(text, LAMBDA s : LowerFrom(s, 1))

\* filePath.split('.').pop()?.toLowerCase()
Extension(filePath) ==
    LetIn(Split(filePath, "."), LAMBDA parts : ToLowerCase(parts[Len(parts)]))

\* getLanguageFromPath(filePath)
getLanguageFromPath(filePath) ==
    LetIn(Extension(filePath), LAMBDA ext :
        CASE ext = "js"   -> "javascript"
          [] ext = "ts"   -> "typescript"
          [] ext = "py"   -> "python"
          [] ext = "java" -> "java"
          [] ext = "cpp"  -> "cpp"
          [] ext = "c"    -> "c"
          [] ext = "cs"   -> "csharp"
          [] ext = "rb"   -> "ruby"
          [] ext = "go"   -> "go"
          [] ext = "php"  -> "php"
          [] OTHER        -> "unknown")

\* \([^)]*\)\s*{
ReParamsBrace(s, P) ==
    ReLit(s, ReStar(s, ReLit(s, ReStar(s, ReLit(s, P, "("), {")"}, TRUE), ")"),
                    SpaceChars, FALSE), "{")

\* (\w+)\s*\([^)]*\)\s*{  : the fallback pattern of getFunctionRegex
ReCallBrace(s, P) ==
    ReParamsBrace(s, ReStar(s, RePlus(s, P, WordChars, FALSE), SpaceChars, FALSE))

\* function\s+(\w+)
ReFunctionKeyword(s, P) ==
    RePlus(s, RePlus(s, ReLit(s, P, "function"), SpaceChars, FALSE), WordChars, FALSE)

\* (\w+)\s*[:=]\s*(?:function|\([^)]*\)\s*=>)
ReAssignedFunction(s, P) ==
    LetIn(ReStar(s, ReOne(s, ReStar(s, RePlus(s, P, WordChars, FALSE), SpaceChars, FALSE),
                          {":", "="}, FALSE),
                 SpaceChars, FALSE),
          LAMBDA afterEq :
              ReLit(s, afterEq, "function")
              \cup ReLit(s, ReStar(s, ReLit(s, ReStar(s, ReLit(s, afterEq, "("),
                                                      {")"}, TRUE), ")"),
                                   SpaceChars, FALSE), "=>"))

\* the javascript / typescript pattern
ReJavaScript(s, P) ==
    ReFunctionKeyword(s, P) \cup ReAssignedFunction(s, P) \cup ReCallBrace(s, P)

\* def\s+(\w+)
RePython(s, P) ==
    RePlus(s, RePlus(s, ReLit(s, P, "def"), SpaceChars, FALSE), WordChars, FALSE)

\* (?:public|private|protected)?\s*(?:static)?\s*\w+\s+(\w+)\s*\(
ReJava(s, P) ==
    LetIn(ReStar(s, P \cup ReLit(s, P, "public") \cup ReLit(s, P, "private")
                      \cup ReLit(s, P, "protected"),
                 SpaceChars, FALSE),
          LAMBDA sp1 :
              ReLit(s,
                    ReStar(s,
                           RePlus(s,
                                  RePlus(s,
                                         RePlus(s,
                                                ReStar(s, sp1 \cup ReLit(s, sp1, "static"),
                                                       SpaceChars, FALSE),
                                                WordChars, FALSE),
                                         SpaceChars, FALSE),
                                  WordChars, FALSE),
                           SpaceChars, FALSE),
                    "("))

\* (?:\w+\s+)?(\w+)\s*\([^)]*\)\s*{
ReCpp(s, P) ==
    ReCallBrace(s, P \cup RePlus(s, RePlus(s, P, WordChars, FALSE), SpaceChars, FALSE))

\* getFunctionRegex(language), as a matcher
getFunctionRegex(lang, s, P) ==
    CASE lang \in {"javascript", "typescript"} -> ReJavaScript(s, P)
      [] lang = "python"                       -> RePython(s, P)
      [] lang \in {"java", "csharp"}           -> ReJava(s, P)
      [] lang = "cpp"                          -> ReCpp(s, P)
      [] OTHER                                 -> ReCallBrace(s, P)

\* the maximal run of word characters that starts at position g
WordFrom(s, g) == SubSeq(s, g, SetMax(RePlus(s, {g}, WordChars, FALSE)) - 1)

\* the word written before the first "(" at or after position st, white space
\* between the two allowed: what the one group of a pattern that ends in
\* (\w+)\s*\( captures when its leftmost match starts at st
WordBeforeParen(s, st) ==
    LetIn(SetMin({ p \in st..Len(s) : Ch(s, p) = "(" }), LAMBDA paren :
        LetIn(SetMax({ p \in st..(paren - 1) : Ch(s, p) \in WordChars }), LAMBDA last :
            SubSeq(s,
                   SetMin({ p \in st..last : \A k \in p..last : Ch(s, k) \in WordChars }),
                   last)))

\* match[1] || 'anonymous' for the leftmost match of the language's pattern
\* in a line s the pattern matches
FunctionName(lang, s) ==
    LetIn(ReFirst(LAMBDA t, P : getFunctionRegex(lang, t, P), s, 1), LAMBDA st :
        CASE lang \in {"javascript", "typescript"} ->
               \* only the first alternative sets group 1, and it is tried first
               IF ReFunctionKeyword(s, {st}) # {}
               THEN WordFrom(s, SetMax(RePlus(s, ReLit(s, {st}, "function"),
                                              SpaceChars, FALSE)))
               ELSE "anonymous"
          [] lang = "python" ->
               WordFrom(s, SetMax(RePlus(s, ReLit(s, {st}, "def"), SpaceChars, FALSE)))
          [] OTHER -> WordBeforeParen(s, st))

\* (line.match(/{/g) || []).length - (line.match(/}/g) || []).length
BraceDelta(line) == CountChar(line, "{") - CountChar(line, "}")

ExtractStart ==
    [functions |-> << >>, currentFunction |-> << >>, braceCount |-> 0, inFunction |-> FALSE]

\* ExtractLine with a header line dropping the function that is still open
ExtractLineDroppingOpen(st, lang, line, i) ==
    LetIn(Trim(line), LAMBDA trimmedLine :
        IF ReTest(LAMBDA t, P : getFunctionRegex(lang, t, P), trimmedLine)
        THEN [functions       |-> st.functions,
              currentFunction |-> << [name |-> FunctionName(lang, trimmedLine),
                                      line |-> i,
                                      body |-> line] >>,
              braceCount      |-> BraceDelta(line),
              inFunction      |-> TRUE]
        ELSE IF st.inFunction /\ st.currentFunction # << >>
        THEN LetIn(st.braceCount + BraceDelta(line), LAMBDA count :
                 IF count <= 0
                 THEN [functions       |->
                           Append(st.functions,
                                  [st.currentFunction[1] EXCEPT !.body = @ \o "\n" \o line]),
                       currentFunction |-> << >>,
                       braceCount      |-> count,
                       inFunction      |-> FALSE]
                 ELSE [st EXCEPT !.currentFunction[1].body = @ \o "\n" \o line,
                                 !.braceCount = count])
        ELSE st)

\* one iteration of extractFunctions' loop; currentFunction is << >> for null
\* and << f >> for a function f
ExtractLine(st, lang, line, i) ==
    LetIn(Trim(line), LAMBDA trimmedLine :
        IF ReTest(LAMBDA t, P : getFunctionRegex(lang, t, P), trimmedLine)
        THEN [functions       |-> st.functions \o st.currentFunction,
              currentFunction |-> << [name |-> FunctionName(lang, trimmedLine),
                                      line |-> i,
                                      body |-> line] >>,
              braceCount      |-> BraceDelta(line),
              inFunction      |-> TRUE]
        ELSE IF st.inFunction /\ st.currentFunction # << >>
        THEN LetIn(st.braceCount + BraceDelta(line), LAMBDA count :
                 IF count <= 0
                 THEN [functions       |->
                           Append(st.functions,
                                  [st.currentFunction[1] EXCEPT !.body = @ \o "\n" \o line]),
                       currentFunction |-> << >>,
                       braceCount      |-> count,
                       inFunction      |-> FALSE]
                 ELSE [st EXCEPT !.currentFunction[1].body = @ \o "\n" \o line,
                                 !.braceCount = count])
        ELSE st)

RECURSIVE ExtractLines(_, _, _, _)
ExtractLines(st, lang, lines, i) ==
    IF i > Len(lines) THEN st
    ELSE LetIn(ExtractLine(st, lang, lines[i], i),
               LAMBDA next : ExtractLines(next, lang, lines, i + 1))

\* extractFunctions(lines, filePath): Array<{name, line, body}>
extractFunctions(addedLines, filePath) ==
    LetIn(addedLines, LAMBDA lines :
        LetIn(getLanguageFromPath(filePath), LAMBDA lang :
            LetIn(ExtractLines(ExtractStart, lang, lines, 1), LAMBDA end :
                end.functions \o end.currentFunction)))

(***************************************************************************)
(* Numbers: a quotient is the exact rational <<n, d>>, d > 0, in lowest    *)
(* terms; NaN (what 0 / 0 gives) is <<0, 0>>, Infinity <<1, 0>>            *)
(***************************************************************************)
NaN == << 0, 0 >>

Abs(n) == IF n < 0 THEN -n ELSE n

RECURSIVE Gcd(_, _)
Gcd(a, b) == IF b = 0 THEN a ELSE Gcd(b, a % b)

Rat(n, d) ==
    IF n = 0 /\ d = 0 THEN NaN
    ELSE LetIn(Gcd(Abs(n), Abs(d)), LAMBDA g :
             IF d < 0 THEN << (0 - n) \div g, (0 - d) \div g >>
             ELSE << n \div g, d \div g >>)

Zero == << 0, 1 >>
Int2Rat(n) == << n, 1 >>

RatAdd(a, b) == Rat(a[1] * b[2] + b[1] * a[2], a[2] * b[2])
RatSub(a, b) == Rat(a[1] * b[2] - b[1] * a[2], a[2] * b[2])
RatMul(a, b) == Rat(a[1] * b[1], a[2] * b[2])
RatLess(a, b) == a[1] * b[2] < b[1] * a[2]
RatMax(a, b) == IF RatLess(a, b) THEN b ELSE a

\* a / b of two finite numbers, as JavaScript divides: 0 / 0 is NaN and
\* x / 0 is Infinity or -Infinity
RatDiv(a, b) == Rat(a[1] * b[2], a[2] * b[1])

RECURSIVE RatSumFrom(_, _)
RatSumFrom(seq, k) ==
    IF k > Len(seq) THEN Zero
    ELSE LetIn(RatSumFrom(seq, k + 1), LAMBDA rest : RatAdd(seq[k], rest))

\* the sum of a sequence of rationals
RatSum(list) == LetIn(list, LAMBDA seq : RatSumFrom(seq, 1))

(***************************************************************************)
(* ComplexityAnalyzer: the four per-function scores                        *)
(***************************************************************************)
\* \bword\b
ReWord(s, P, word) == ReBoundary(s, ReLit(s, ReBoundary(s, P), word))

\* \belse\s+if\b
ReElseIf(s, P) ==
    ReBoundary(s, ReLit(s, RePlus(s, ReLit(s, ReBoundary(s, P), "else"),
                                  SpaceChars, FALSE), "if"))

\* \?\s*:
ReTernary(s, P) == ReLit(s, ReStar(s, ReLit(s, P, "?"), SpaceChars, FALSE), ":")

\* &&|\|\|
ReLogicalOp(s, P) == ReLit(s, P, "&&") \cup ReLit(s, P, "||")

\* the keywords and operators calculateFunctionCyclomaticComplexity matches
\* with \b on both sides
DecisionWords == <<"if", "while", "for", "do", "switch", "case", "catch", "&&", "||">>

BaseComplexity == 1

\* calculateFunctionCyclomaticComplexity counting from 0 instead of the base
\* complexity
CyclomaticWithoutBase(functionBody) ==
    LetIn(functionBody, LAMBDA body :
        SumSeq([k \in 1..Len(DecisionWords) |->
                  ReCount(LAMBDA t, P : ReWord(t, P, DecisionWords[k]), body)])
        + ReCount(ReElseIf, body)
        + ReCount(ReTernary, body))

\* calculateFunctionCyclomaticComplexity(functionBody)
calculateFunctionCyclomaticComplexity(functionBody) ==
    LetIn(functionBody, LAMBDA body :
        BaseComplexity
        + SumSeq([k \in 1..Len(DecisionWords) |->
                    ReCount(LAMBDA t, P : ReWord(t, P, DecisionWords[k]), body)])
        + ReCount(ReElseIf, body)
        + ReCount(ReTernary, body))

\* ^\s*(if|while|for|do|switch)\b  and  ^\s*(catch|finally)\b
StartsWithKeyword(s, keywords) ==
    \E w \in keywords :
        ReBoundary(s, ReLit(s, ReStar(s, {1}, SpaceChars, FALSE), w)) # {}

\* one iteration of calculateFunctionCognitiveComplexity's loop
CognitiveLine(st, line) ==
    LetIn(Trim(line), LAMBDA trimmedLine :
        LetIn(IF Includes(line, "}")
              THEN Max(0, (IF Includes(line, "{") THEN st.nestingLevel + 1
                           ELSE st.nestingLevel) - 1)
              ELSE (IF Includes(line, "{") THEN st.nestingLevel + 1 ELSE st.nestingLevel),
              LAMBDA nestingLevel :
                  [nestingLevel |-> nestingLevel,
                   complexity   |->
                       st.complexity
                       + ReCount(ReLogicalOp, trimmedLine)
                       + (IF StartsWithKeyword(trimmedLine,
                                               {"if", "while", "for", "do", "switch"})
                          THEN nestingLevel ELSE 0)
                       + (IF StartsWithKeyword(trimmedLine, {"catch", "finally"})
                          THEN nestingLevel ELSE 0)
                       + ReCount(ReTernary, trimmedLine) * nestingLevel]))

RECURSIVE CognitiveLines(_, _, _)
CognitiveLines(st, lines, k) ==
    IF k > Len(lines) THEN st
    ELSE LetIn(CognitiveLine(st, lines[k]),
               LAMBDA next : CognitiveLines(next, lines, k + 1))

\* calculateFunctionCognitiveComplexity(functionBody)
calculateFunctionCognitiveComplexity(functionBody) ==
    LetIn(Split(functionBody, "\n"), LAMBDA lines :
        CognitiveLines([nestingLevel |-> 0, complexity |-> 0], lines, 1).complexity)

\* one iteration of calculateMaxNestingDepth's loop
NestingLine(st, line) ==
    LetIn(st.currentDepth + CountChar(line, "{"), LAMBDA raised :
        [maxDepth     |-> Max(st.maxDepth, raised),
         currentDepth |-> raised - CountChar(line, "}")])

RECURSIVE NestingLines(_, _, _)
NestingLines(st, lines, k) ==
    IF k > Len(lines) THEN st
    ELSE LetIn(NestingLine(st, lines[k]),
               LAMBDA next : NestingLines(next, lines, k + 1))

\* calculateMaxNestingDepth(functionBody)
calculateMaxNestingDepth(functionBody) ==
    LetIn(Split(functionBody, "\n"), LAMBDA lines :
        NestingLines([maxDepth |-> 0, currentDepth |-> 0], lines, 1).maxDepth)

\* line => line.trim().length > 0
NonBlank(line) == Len(Trim(line)) > 0

\* func.body.split('\n').filter(line => line.trim().length > 0).length
FunctionLength(functionBody) == Len(Filter(Split(functionBody, "\n"), NonBlank))

(***************************************************************************)
(* ComplexityAnalyzer: aggregation over files                              *)
(***************************************************************************)
CyclomaticThreshold == 10
CognitiveThreshold == 15
NestingThreshold == 4
LengthThreshold == 50

\* the score of one function body for one of the four metrics
FunctionScore(metric, functionBody) ==
    CASE metric = "cyclomatic" -> calculateFunctionCyclomaticComplexity(functionBody)
      [] metric = "cognitive"  -> calculateFunctionCognitiveComplexity(functionBody)
      [] metric = "nesting"    -> calculateMaxNestingDepth(functionBody)
      [] metric = "length"     -> FunctionLength(functionBody)

\* the per-function entries (fileFunctions) of one file for one metric
FileFunctions(file, metric) ==
    LetIn(extractFunctions(file.additions, file.path), LAMBDA functions :
        [k \in 1..Len(functions) |->
            [name  |-> functions[k].name,
             line  |-> functions[k].line,
             score |-> FunctionScore(metric, functions[k].body)]])

Scores(entries) == [k \in 1..Len(entries) |-> entries[k].score]

HasEntries(entry) == Len(entry.functions) > 0

\* scores.reduce((a, b) => a + b, 0) / scores.length
Mean(scores) == RatDiv(Int2Rat(SumSeq(scores)), Int2Rat(Len(scores)))

\* ComplexityResult dividing by the number of functions even when it is 0
ComplexityResultUnguarded(perFile, all, threshold) ==
    [average         |-> Mean(all),
     maximum         |-> SetMax({0} \cup { all[k] : k \in 1..Len(all) }),
     violationsCount |-> Cardinality({ k \in 1..Len(all) : all[k] > threshold }),
     files           |-> perFile]

\* ComplexityResult counting a score equal to the threshold as a violation
ComplexityResultInclusive(perFile, all, threshold) ==
    [average         |-> IF Len(all) > 0 THEN Mean(all) ELSE Zero,
     maximum         |-> SetMax({0} \cup { all[k] : k \in 1..Len(all) }),
     violationsCount |-> Cardinality({ k \in 1..Len(all) : all[k] >= threshold }),
     files           |-> perFile]

\* the result record, from the per-file entries and the scores of all functions
ComplexityResult(perFile, all, threshold) ==
    [average         |-> IF Len(all) > 0 THEN Mean(all) ELSE Zero,
     maximum         |-> SetMax({0} \cup { all[k] : k \in 1..Len(all) }),
     violationsCount |-> Cardinality({ k \in 1..Len(all) : all[k] > threshold }),
     files           |-> perFile]

\* the body shared by calculateCyclomaticComplexity, calculateCognitiveComplexity,
\* calculateNestingDepth and calculateFunctionLength: a file gets an entry
\* when it has at least one function
ComplexityOver(fs, metric, threshold) ==
    LetIn([i \in 1..Len(fs) |-> [path |-> fs[i].path,
                                 functions |-> FileFunctions(fs[i], metric)]],
          LAMBDA perFile :
              LetIn(Scores(Flatten([i \in 1..Len(perFile) |-> perFile[i].functions])),
                    LAMBDA all :
                        LetIn(Filter(perFile, HasEntries), LAMBDA withFuncs :
                            ComplexityResult(
                                [j \in 1..Len(withFuncs) |->
                                    [path      |-> withFuncs[j].path,
                                     score     |-> Mean(Scores(withFuncs[j].functions)),
                                     functions |-> withFuncs[j].functions]],
                                all, threshold))))

calculateCyclomaticComplexity(fs) == ComplexityOver(fs, "cyclomatic", CyclomaticThreshold)

calculateCognitiveComplexity(fs) == ComplexityOver(fs, "cognitive", CognitiveThreshold)

calculateNestingDepth(fs) == ComplexityOver(fs, "nesting", NestingThreshold)

calculateFunctionLength(fs) == ComplexityOver(fs, "length", LengthThreshold)

(***************************************************************************)
(* DuplicationDetector: detectCodeDuplication                              *)
(***************************************************************************)
minBlockSize == 5

\* the windows of one file: {block, file, lineNumber} for i = 0 .. length - 5
FileWindows(file) ==
    LetIn(Filter(file.additions, NonBlank), LAMBDA lines :
        [w \in 1..Max(0, Len(lines) - minBlockSize + 1) |->
            [block      |-> Join(SubSeq(lines, w, w + minBlockSize - 1), "\n"),
             file       |-> file.path,
             lineNumber |-> w]])

\* OccurrenceFiles without the Set: one path per occurrence
OccurrenceFilesRepeated(occ) == [o \in 1..Len(occ) |-> occ[o].file]

\* the files of the occurrences of one block: [...new Set(occurrences.map(o => o.file))]
OccurrenceFiles(occ) == Dedup([o \in 1..Len(occ) |-> occ[o].file])

\* the entries of duplicatedBlocks, from the windows of all files: a block
\* (a key of lineGroups, in insertion order) is recorded when it has more
\* than one occurrence
DuplicatedBlocks(windows) ==
    LetIn(Dedup([k \in 1..Len(windows) |-> windows[k].block]), LAMBDA blocks :
        LetIn([k \in 1..Len(blocks) |->
                  Filter(windows, LAMBDA w : w.block = blocks[k])],
              LAMBDA groups :
                  LetIn(Filter(groups, LAMBDA occ : Len(occ) > 1), LAMBDA repeated :
                      [k \in 1..Len(repeated) |->
                          [lines       |-> minBlockSize,
                           occurrences |-> Len(repeated[k]),
                           files       |-> OccurrenceFiles(repeated[k])]])))

\* detectCodeDuplication taking the percentage of the non-blank added lines
detectCodeDuplicationOverNonBlank(fs) ==
    LetIn(DuplicatedBlocks(Flatten([i \in 1..Len(fs) |-> FileWindows(fs[i])])),
          LAMBDA duplicatedBlocks :
              LetIn(SumSeq([k \in 1..Len(duplicatedBlocks) |->
                               minBlockSize * duplicatedBlocks[k].occurrences]),
                    LAMBDA totalDuplicatedLines :
                        LetIn(SumSeq([i \in 1..Len(fs) |->
                                         Len(Filter(fs[i].additions, NonBlank))]),
                              LAMBDA totalLines :
                                  [percentage |->
                                       IF totalLines > 0
                                       THEN RatMul(RatDiv(Int2Rat(totalDuplicatedLines),
                                                          Int2Rat(totalLines)),
                                                   Int2Rat(100))
                                       ELSE Zero,
                                   linesCount       |-> totalDuplicatedLines,
                                   blocksCount      |-> Len(duplicatedBlocks),
                                   duplicatedBlocks |-> duplicatedBlocks])))

\* detectCodeDuplication(files): DuplicationScore
detectCodeDuplication(fs) ==
    LetIn(DuplicatedBlocks(Flatten([i \in 1..Len(fs) |-> FileWindows(fs[i])])),
          LAMBDA duplicatedBlocks :
              LetIn(SumSeq([k \in 1..Len(duplicatedBlocks) |->
                               minBlockSize * duplicatedBlocks[k].occurrences]),
                    LAMBDA totalDuplicatedLines :
                        LetIn(SumSeq([i \in 1..Len(fs) |-> Len(fs[i].additions)]),
                              LAMBDA totalLines :
                                  [percentage |->
                                       IF totalLines > 0
                                       THEN RatMul(RatDiv(Int2Rat(totalDuplicatedLines),
                                                          Int2Rat(totalLines)),
                                                   Int2Rat(100))
                                       ELSE Zero,
                                   linesCount       |-> totalDuplicatedLines,
                                   blocksCount      |-> Len(duplicatedBlocks),
                                   duplicatedBlocks |-> duplicatedBlocks])))

(***************************************************************************)
(* DesignHeuristics                                                        *)
(***************************************************************************)
\* the helpers the source leaves as stubs
extractIdentifiers(lines) == << >>
validateFileName(path, lang) == TRUE
detectModificationPatterns(lines) == 0
detectLongParameterLists(lines) == << >>
detectDeadCode(lines) == << >>
detectSimpleDuplication(lines) == << >>

\* analyzeClassComplexity(lines) and calculateClassSize(lines)
analyzeClassComplexity(lines) == Len(Filter(lines, NonBlank))
calculateClassSize(lines) == Len(Filter(lines, NonBlank))

\* \bnew\s+\w+
ReNew(s, P) ==
    RePlus(s, RePlus(s, ReLit(s, ReBoundary(s, P), "new"), SpaceChars, FALSE),
           WordChars, FALSE)

\* detectHardDependencies(lines)
detectHardDependencies(lines) == Len(Filter(lines, LAMBDA l : ReTest(ReNew, l)))

\* validateNamingConventions(files, language): every file name passes
\* validateFileName and no identifier is extracted, so each file adds one
\* check, one valid name and no violation
validateNamingConventions(fs, lang) ==
    LetIn(Filter(fs, LAMBDA f : validateFileName(f.path, lang)), LAMBDA fileOk :
        LetIn(Filter(fs, LAMBDA f : ~validateFileName(f.path, lang)), LAMBDA bad :
            LetIn(Len(fs) + Len(Flatten([i \in 1..Len(fs) |->
                                            extractIdentifiers(fs[i].additions)])),
                  LAMBDA totalChecks :
                      [overall    |-> IF totalChecks > 0
                                      THEN RatMul(RatDiv(Int2Rat(Len(fileOk)),
                                                         Int2Rat(totalChecks)),
                                                  Int2Rat(100))
                                      ELSE Int2Rat(100),
                       categories |-> [variables |-> 0, functions |-> 0, classes |-> 0,
                                       files |-> Len(fileOk)],
                       violations |->
                           [k \in 1..Len(bad) |->
                               [type |-> "file", file |-> bad[k].path, line |-> 1,
                                message |->
                                    "File name does not follow naming conventions"]]])))

ClassComplexityLimit == 20
SingleResponsibilityPenalty == 10
OpenClosedPenalty == 5
DependencyInversionPenalty == 15

\* the violations checkSolidPrinciples records for one file
SolidViolations(file) ==
    (IF analyzeClassComplexity(file.additions) > ClassComplexityLimit
     THEN << [principle |-> "Single Responsibility", file |-> file.path, line |-> 1,
              description |-> "Class appears to have multiple responsibilities",
              severity |-> "medium"] >>
     ELSE << >>)
    \o (IF detectModificationPatterns(file.additions) > 0
        THEN << [principle |-> "Open/Closed", file |-> file.path, line |-> 1,
                 description |-> "Code may require modification instead of extension",
                 severity |-> "low"] >>
        ELSE << >>)
    \o (IF detectHardDependencies(file.additions) > 0
        THEN << [principle |-> "Dependency Inversion", file |-> file.path, line |-> 1,
                 description |-> "Direct dependencies on concrete classes detected",
                 severity |-> "high"] >>
        ELSE << >>)

\* how many of the violations name the principle p
ViolationsOf(violations, p) == Len(SelectSeq(violations, LAMBDA v : v.principle = p))

\* the five scores, from the violations recorded
SolidScores(violations) ==
    [singleResponsibility |->
         100 - SingleResponsibilityPenalty * ViolationsOf(violations, "Single Responsibility"),
     openClosed           |-> 100 - OpenClosedPenalty * ViolationsOf(violations, "Open/Closed"),
     liskovSubstitution   |-> 100,
     interfaceSegregation |-> 100,
     dependencyInversion  |->
         100 - DependencyInversionPenalty * ViolationsOf(violations, "Dependency Inversion")]

\* checkSolidPrinciples(files): SolidScore
checkSolidPrinciples(fs) ==
    LetIn(Flatten([i \in 1..Len(fs) |-> SolidViolations(fs[i])]), LAMBDA violations :
        LetIn(SolidScores(violations), LAMBDA principles :
            [overall    |->
                 RatMax(Zero,
                        RatDiv(Int2Rat(principles.singleResponsibility
                                       + principles.openClosed
                                       + principles.liskovSubstitution
                                       + principles.interfaceSegregation
                                       + principles.dependencyInversion), Int2Rat(5))),
             principles |-> principles,
             violations |-> violations]))

LargeClassLimit == 500

\* the smells detectCodeSmells records for one file
FileSmells(file) ==
    LetIn(detectLongParameterLists(file.additions), LAMBDA long :
        LetIn(detectDeadCode(file.additions), LAMBDA dead :
            LetIn(calculateClassSize(file.additions), LAMBDA size :
                [k \in 1..Len(long) |->
                    [type |-> "Long Parameter List", file |-> file.path,
                     line |-> long[k].line,
                     description |-> << "Function has parameters", long[k].name,
                                        long[k].paramCount >>,
                     severity |-> "medium"]]
                \o (IF size > LargeClassLimit
                    THEN << [type |-> "Large Class", file |-> file.path, line |-> 1,
                             description |-> << "Class has lines", size >>,
                             severity |-> "high"] >>
                    ELSE << >>)
                \o [k \in 1..Len(dead) |->
                       [type |-> "Dead Code", file |-> file.path, line |-> dead[k].line,
                        description |-> "Unreachable or unused code detected",
                        severity |-> "low"]])))

\* detectCodeSmells(files, language): CodeSmell[]
detectCodeSmells(fs, lang) == Flatten([i \in 1..Len(fs) |-> FileSmells(fs[i])])

GodObjectLimit == 50
SpaghettiLimit == 20

\* the functions of a file with their cyclomatic complexity, those over the
\* limit only
TangledFunctions(file) ==
    LetIn(extractFunctions(file.additions, file.path), LAMBDA functions :
        Filter([k \in 1..Len(functions) |->
                   [name |-> functions[k].name, line |-> functions[k].line,
                    complexity |->
                        calculateFunctionCyclomaticComplexity(functions[k].body)]],
               LAMBDA f : f.complexity > SpaghettiLimit))

\* the anti-patterns detectAntiPatterns records for one file
FileAntiPatterns(file) ==
    LetIn(detectSimpleDuplication(file.additions), LAMBDA duplicates :
        LetIn(TangledFunctions(file), LAMBDA tangled :
            (IF analyzeClassComplexity(file.additions) > GodObjectLimit
             THEN << [type |-> "God Object", file |-> file.path, lines |-> << 1 >>,
                      description |-> "Class appears to know or do too much",
                      impact |-> "high"] >>
             ELSE << >>)
            \o (IF Len(duplicates) > 0
                THEN << [type |-> "Copy-Paste Programming", file |-> file.path,
                         lines |-> duplicates,
                         description |-> "Duplicated code blocks detected",
                         impact |-> "medium"] >>
                ELSE << >>)
            \o [k \in 1..Len(tangled) |->
                   [type |-> "Spaghetti Code", file |-> file.path,
                    lines |-> << tangled[k].line >>,
                    description |-> << "Function has very high complexity",
                                       tangled[k].name, tangled[k].complexity >>,
                    impact |-> "high"]]))

\* detectAntiPatterns(files, language): AntiPattern[]
detectAntiPatterns(fs, lang) == Flatten([i \in 1..Len(fs) |-> FileAntiPatterns(fs[i])])

\* the most common of the extensions, the earliest-seen one among equally
\* common ones (the sort is stable)
MostCommon(extensions) ==
    LetIn(Dedup(extensions), LAMBDA keys :
        LetIn([k \in 1..Len(keys) |-> Len(SelectSeq(extensions, LAMBDA x : x = keys[k]))],
              LAMBDA count :
                  keys[SetMin({ k \in 1..Len(keys) :
                                  \A o \in 1..Len(keys) : count[k] >= count[o] })]))

\* detectLanguage(files)
detectLanguage(fs) ==
    LetIn(Filter([i \in 1..Len(fs) |-> Extension(fs[i].path)], LAMBDA e : e # ""),
          LAMBDA extensions :
              IF Len(extensions) = 0 THEN "unknown"
              ELSE getLanguageFromPath("file." \o MostCommon(extensions)))

\* validateLanguageIdioms(files, language): the three per-language validators
\* are stubs that record nothing, so idiomUsage stays empty
validateLanguageIdioms(fs, lang) ==
    [overall    |-> Int2Rat(100),
     language   |-> IF lang # "" THEN lang ELSE detectLanguage(fs),
     idiomUsage |-> << >>]

\* analyzeDesignPatterns(files, language): the three detectors are stubs that
\* detect nothing
analyzeDesignPatterns(fs, lang) == << >>

(***************************************************************************)
(* analyzeCodeQuality                                                      *)
(***************************************************************************)
\* the metrics computed from the parsed files
QualityOf(fs, lang) ==
    [cyclomaticComplexity |-> calculateCyclomaticComplexity(fs),
     cognitiveComplexity  |-> calculateCognitiveComplexity(fs),
     nestingDepth         |-> calculateNestingDepth(fs),
     functionLength       |-> calculateFunctionLength(fs),
     codeDuplication      |-> detectCodeDuplication(fs),
     namingConventions    |-> validateNamingConventions(fs, lang),
     solidPrinciples      |-> checkSolidPrinciples(fs),
     codeSmells           |-> detectCodeSmells(fs, lang),
     antiPatterns         |-> detectAntiPatterns(fs, lang),
     languageIdioms       |-> validateLanguageIdioms(fs, lang),
     designPatterns       |-> analyzeDesignPatterns(fs, lang)]

\* analyzeCodeQuality(diffContent, language): CodeQualityMetrics
analyzeCodeQuality(text, lang) ==
    LetIn(parseDiffFiles(text), LAMBDA fs : QualityOf(fs, lang))

(***************************************************************************)
(* AggregationLayer: analyzePRPatterns, generateCodeQualityAnalysis,       *)
(* generateAnalysisResult.  A Record<string, PRMetrics> is the sequence of *)
(* its entries [key, value] in insertion order; an optional field that is  *)
(* undefined is a field the record does not have.                          *)
(***************************************************************************)
\* Object.values(metrics)
ObjectValues(mapping) == [k \in 1..Len(mapping) |-> mapping[k].value]

\* Object.keys(metrics)
ObjectKeys(mapping) == [k \in 1..Len(mapping) |-> mapping[k].key]

\* whether the optional field f of the record r is set
Has(r, f) == f \in DOMAIN r

\* r.f || 0 for a numeric optional field
OrZero(r, f) == IF Has(r, f) THEN r[f] ELSE 0

\* Math.round of a finite number: the nearest integer, halves upwards
Round(r) == (2 * r[1] + r[2]) \div (2 * r[2])

\* Math.round(x * 10) / 10, and the number x.toFixed(1) writes
RoundToTenth(r) == Rat(Round(RatMul(r, Int2Rat(10))), 10)

\* the number the characters from..to of s write, all of them digits
RECURSIVE DigitsValue(_, _, _)
DigitsValue(s, from, to) ==
    IF to < from THEN 0
    ELSE 10 * DigitsValue(s, from, to - 1) + (SetMin(Positions("0123456789", Ch(s, to))) - 1)

RECURSIVE Power10(_)
Power10(n) == IF n = 0 THEN 1 ELSE 10 * Power10(n - 1)

\* parseFloat of an unsigned decimal numeral without exponent: digits, then
\* optionally a point and digits; NaN when the string starts with neither
ParseFloat(text) ==
    LetIn(text, LAMBDA s :
        LetIn(SetMax(ReStar(s, {1}, {"0","1","2","3","4","5","6","7","8","9"}, FALSE)),
              LAMBDA intEnd :
                  LetIn(IF intEnd <= Len(s) /\ Ch(s, intEnd) = "."
                        THEN SetMax(ReStar(s, {intEnd + 1},
                                           {"0","1","2","3","4","5","6","7","8","9"}, FALSE))
                        ELSE intEnd,
                        LAMBDA end :
                            IF intEnd = 1 /\ end <= 2 THEN NaN
                            ELSE IF end = intEnd THEN Int2Rat(DigitsValue(s, 1, intEnd - 1))
                            ELSE RatAdd(Int2Rat(DigitsValue(s, 1, intEnd - 1)),
                                        Rat(DigitsValue(s, intEnd + 1, end - 1),
                                            Power10(end - intEnd - 1))))))

\* prList.filter(pr => pr.state === 'MERGED').length
MergedCount(prList) == Len(SelectSeq(prList, LAMBDA pr : pr.state = "MERGED"))

\* mergeRate without the guard on prList.length
MergeRateUnguarded(prList) ==
    RatMul(RatDiv(Int2Rat(MergedCount(prList)), Int2Rat(Len(prList))), Int2Rat(100))

\* prList.length > 0 ? (mergedPRs / prList.length) * 100 : 0
MergeRate(prList) ==
    IF Len(prList) > 0
    THEN RatMul(RatDiv(Int2Rat(MergedCount(prList)), Int2Rat(Len(prList))), Int2Rat(100))
    ELSE Zero

\* (pr.additions || 0) + (pr.deletions || 0)
PRSize(pr) == OrZero(pr, "additions") + OrZero(pr, "deletions")

\* m.totalAdditions > 0 ? m[field] / m.totalAdditions : 0, summed over the metrics
RatioSum(metricsArray, field) ==
    RatSum([k \in 1..Len(metricsArray) |->
               IF metricsArray[k].totalAdditions > 0
               THEN RatDiv(Int2Rat(metricsArray[k][field]),
                           Int2Rat(metricsArray[k].totalAdditions))
               ELSE Zero])

LowMergeRate == 50
LargePRSize == 1000

\* the four checks of analyzePRPatterns that depend on the metrics, as
\* sequences of {finding, recommendation, risk} with << >> for no risk
PatternChecks(prList, metricsArray) ==
    LetIn(MergeRate(prList), LAMBDA mergeRate :
        IF RatLess(mergeRate, Int2Rat(LowMergeRate))
        THEN << [finding |-> << "Low merge rate detected", RoundToTenth(mergeRate) >>,
                 recommendation |-> "Investigate PR review and merge process",
                 risk |-> << [level |-> "high",
                              description |->
                                  "Low merge rate indicates potential workflow issues"] >>] >>
        ELSE << >>)
    \o (IF Len(metricsArray) > 0
        THEN LetIn(RatDiv(RatioSum(metricsArray, "testAdditions"),
                          Int2Rat(Len(metricsArray))),
                   LAMBDA avgTestRatio :
                       IF RatLess(avgTestRatio, Rat(2, 10))
                       THEN << [finding |->
                                    << "Low test coverage",
                                       RoundToTenth(RatMul(avgTestRatio, Int2Rat(100))) >>,
                                recommendation |->
                                    "Implement mandatory test coverage requirements",
                                risk |-> << [level |-> "high",
                                             description |->
                                                 "Insufficient test coverage increases regression risk"] >>] >>
                       ELSE << >>)
        ELSE << >>)
    \o LetIn(Len(SelectSeq(prList, LAMBDA pr : PRSize(pr) > LargePRSize)), LAMBDA largePRs :
           IF RatLess(RatMul(Int2Rat(Len(prList)), Rat(3, 10)), Int2Rat(largePRs))
           THEN << [finding |-> << largePRs, "PRs exceed 1000 changes" >>,
                    recommendation |->
                        "Break down large PRs into smaller, focused changes",
                    risk |-> << [level |-> "medium",
                                 description |->
                                     "Large PRs are difficult to review effectively"] >>] >>
           ELSE << >>)
    \o (IF RatLess(RatDiv(RatioSum(metricsArray, "docAdditions"),
                          Int2Rat(Max(Len(metricsArray), 1))),
                   Rat(5, 100))
        THEN << [finding |-> "Low documentation updates relative to code changes",
                 recommendation |-> "Improve documentation practices and requirements",
                 risk |-> << >>] >>
        ELSE << >>)
    \o LetIn(Len(SelectSeq(metricsArray, LAMBDA m : m.securityPatternMatches > 0)),
             LAMBDA securityConcerns :
                 IF securityConcerns > 0
                 THEN << [finding |->
                              << securityConcerns,
                                 "PRs contain potential security-sensitive changes" >>,
                          recommendation |-> "Review security-sensitive changes carefully",
                          risk |-> << >>] >>
                 ELSE << >>)

\* analyzePRPatterns(prList, metrics): {findings, recommendations, risks}
analyzePRPatterns(prList, mapping) ==
    LetIn(PatternChecks(prList, ObjectValues(mapping)), LAMBDA checks :
        [findings        |-> [k \in 1..Len(checks) |-> checks[k].finding],
         recommendations |-> [k \in 1..Len(checks) |-> checks[k].recommendation],
         risks           |-> Flatten([k \in 1..Len(checks) |-> checks[k].risk])])

\* what generateCodeQualityAnalysis returns when no change has code-quality
\* metrics
NoQualityAnalysis ==
    [overallScore |-> 0,
     complexityAnalysis |->
         [averageCyclomaticComplexity |-> Zero,
          averageCognitiveComplexity  |-> Zero,
          maxNestingDepth             |-> 0,
          averageFunctionLength       |-> 0,
          highComplexityFiles         |-> << >>,
          recommendations |-> << "No code quality metrics available for analysis" >>],
     maintainabilityAnalysis |->
         [duplicationPercentage |-> Zero,
          namingConventionScore |-> 0,
          solidPrinciplesScore  |-> 0,
          codeSmellsCount       |-> 0,
          criticalIssues        |-> << >>,
          recommendations |-> << "No maintainability metrics available for analysis" >>],
     bestPracticesAnalysis |->
         [languageIdiomScore     |-> 0,
          designPatternUsage     |-> 0,
          antiPatternsCount      |-> 0,
          bestPracticeViolations |-> << >>,
          recommendations |-> << "No best practices metrics available for analysis" >>]]

\* the recommendations whose condition holds, in the order written
Recommend(rules) ==
    LetIn(SelectSeq(rules, LAMBDA r : r[1]), LAMBDA hit : [k \in 1..Len(hit) |-> hit[k][2]])

\* complexityMetrics.reduce((sum, m) => sum + Get(m), 0) / complexityMetrics.length
AverageOf(complexityMetrics, Get(_)) ==
    RatDiv(RatSum([k \in 1..Len(complexityMetrics) |-> Get(complexityMetrics[k])]),
           Int2Rat(Len(complexityMetrics)))

\* the paths of the files whose cyclomatic score is over the threshold
HighComplexityFiles(complexityMetrics) ==
    Flatten([k \in 1..Len(complexityMetrics) |->
        LetIn(SelectSeq(complexityMetrics[k].cyclomaticComplexity.files,
                        LAMBDA f : RatLess(Int2Rat(CyclomaticThreshold), f.score)),
              LAMBDA high : [j \in 1..Len(high) |-> high[j].path])])

\* the averages and totals generateCodeQualityAnalysis folds the changes into
QualityAggregates(complexityMetrics) ==
    [avgCyclomaticComplexity  |->
         AverageOf(complexityMetrics, LAMBDA m : m.cyclomaticComplexity.average),
     avgCognitiveComplexity   |->
         AverageOf(complexityMetrics, LAMBDA m : m.cognitiveComplexity.average),
     maxNestingDepth          |->
         SetMax({ complexityMetrics[k].nestingDepth.maximum :
                    k \in 1..Len(complexityMetrics) }),
     avgFunctionLength        |->
         AverageOf(complexityMetrics, LAMBDA m : m.functionLength.average),
     avgDuplicationPercentage |->
         AverageOf(complexityMetrics, LAMBDA m : m.codeDuplication.percentage),
     avgNamingScore           |->
         AverageOf(complexityMetrics, LAMBDA m : m.namingConventions.overall),
     avgSolidScore            |->
         AverageOf(complexityMetrics, LAMBDA m : m.solidPrinciples.overall),
     totalCodeSmells          |->
         SumSeq([k \in 1..Len(complexityMetrics) |-> Len(complexityMetrics[k].codeSmells)]),
     avgLanguageIdiomScore    |->
         AverageOf(complexityMetrics, LAMBDA m : m.languageIdioms.overall),
     totalAntiPatterns        |->
         SumSeq([k \in 1..Len(complexityMetrics) |-> Len(complexityMetrics[k].antiPatterns)]),
     totalDesignPatterns      |->
         SumSeq([k \in 1..Len(complexityMetrics) |->
                    Len(complexityMetrics[k].designPatterns)])]

\* ComplexityRecommendations without the rule on cyclomatic complexity
ComplexityRecommendationsWithoutFirst(complexityMetrics, a) ==
    Recommend(<<
        << RatLess(Int2Rat(CognitiveThreshold), a.avgCognitiveComplexity),
           "Simplify cognitive complexity by reducing nested conditions" >>,
        << a.maxNestingDepth > NestingThreshold,
           "Reduce nesting depth by extracting methods or using early returns" >>,
        << RatLess(Int2Rat(LengthThreshold), a.avgFunctionLength),
           "Break down long functions into smaller, more focused functions" >> >>)

\* complexityRecommendations, from the aggregates a
ComplexityRecommendations(complexityMetrics, a) ==
    Recommend(<<
        << RatLess(Int2Rat(CyclomaticThreshold), a.avgCyclomaticComplexity),
           "Reduce cyclomatic complexity by breaking down complex functions" >>,
        << RatLess(Int2Rat(CognitiveThreshold), a.avgCognitiveComplexity),
           "Simplify cognitive complexity by reducing nested conditions" >>,
        << a.maxNestingDepth > NestingThreshold,
           "Reduce nesting depth by extracting methods or using early returns" >>,
        << RatLess(Int2Rat(LengthThreshold), a.avgFunctionLength),
           "Break down long functions into smaller, more focused functions" >> >>)

DuplicationLimit == 5
GoodScore == 80
CodeSmellsLimit == 10

\* maintainabilityRecommendations
MaintainabilityRecommendations(a) ==
    Recommend(<<
        << RatLess(Int2Rat(DuplicationLimit), a.avgDuplicationPercentage),
           "Reduce code duplication by extracting common functionality" >>,
        << RatLess(a.avgNamingScore, Int2Rat(GoodScore)),
           "Improve naming conventions for better code readability" >>,
        << RatLess(a.avgSolidScore, Int2Rat(GoodScore)),
           "Review SOLID principles adherence to improve code design" >>,
        << a.totalCodeSmells > CodeSmellsLimit,
           "Address identified code smells to improve maintainability" >> >>)

\* bestPracticesRecommendations
BestPracticesRecommendations(a) ==
    Recommend(<<
        << RatLess(a.avgLanguageIdiomScore, Int2Rat(GoodScore)),
           "Follow language-specific idioms and best practices" >>,
        << a.totalAntiPatterns > 0,
           "Refactor identified anti-patterns to improve code quality" >> >>)

\* OverallScore with the complexity score left as it comes
OverallScoreUnfloored(a) ==
    Round(RatAdd(
        RatAdd(RatMul(RatSub(Int2Rat(100),
                             RatAdd(RatAdd(RatMul(a.avgCyclomaticComplexity, Int2Rat(2)),
                                           RatMul(a.avgCognitiveComplexity, Rat(3, 2))),
                                    Int2Rat(a.maxNestingDepth * 5))),
                      Rat(4, 10)),
               RatMul(RatDiv(RatAdd(RatAdd(a.avgNamingScore, a.avgSolidScore),
                                    RatMax(Zero,
                                           RatSub(Int2Rat(100),
                                                  RatMul(a.avgDuplicationPercentage,
                                                         Int2Rat(10))))),
                             Int2Rat(3)),
                      Rat(4, 10))),
        RatMul(RatMax(Zero, RatSub(a.avgLanguageIdiomScore,
                                   Int2Rat(a.totalAntiPatterns * 10))),
               Rat(2, 10))))

\* Math.round(overallScore): the weighted mean of the three scores (the
\* weights 0.4, 0.4, 0.2 and the factor 1.5 taken as exact decimals)
OverallScore(a) ==
    Round(RatAdd(
        RatAdd(RatMul(RatMax(Zero,
                             RatSub(Int2Rat(100),
                                    RatAdd(RatAdd(RatMul(a.avgCyclomaticComplexity, Int2Rat(2)),
                                                  RatMul(a.avgCognitiveComplexity, Rat(3, 2))),
                                           Int2Rat(a.maxNestingDepth * 5)))),
                      Rat(4, 10)),
               RatMul(RatDiv(RatAdd(RatAdd(a.avgNamingScore, a.avgSolidScore),
                                    RatMax(Zero,
                                           RatSub(Int2Rat(100),
                                                  RatMul(a.avgDuplicationPercentage,
                                                         Int2Rat(10))))),
                             Int2Rat(3)),
                      Rat(4, 10))),
        RatMul(RatMax(Zero, RatSub(a.avgLanguageIdiomScore,
                                   Int2Rat(a.totalAntiPatterns * 10))),
               Rat(2, 10))))

\* the summary of the changes that carry code-quality metrics (one or more)
QualityAnalysisOf(complexityMetrics) ==
    LetIn(QualityAggregates(complexityMetrics), LAMBDA a :
        [overallScore |-> OverallScore(a),
         complexityAnalysis |->
             [averageCyclomaticComplexity |-> RoundToTenth(a.avgCyclomaticComplexity),
              averageCognitiveComplexity  |-> RoundToTenth(a.avgCognitiveComplexity),
              maxNestingDepth             |-> a.maxNestingDepth,
              averageFunctionLength       |-> Round(a.avgFunctionLength),
              highComplexityFiles         |-> Dedup(HighComplexityFiles(complexityMetrics)),
              recommendations |-> ComplexityRecommendations(complexityMetrics, a)],
         maintainabilityAnalysis |->
             [duplicationPercentage |-> RoundToTenth(a.avgDuplicationPercentage),
              namingConventionScore |-> Round(a.avgNamingScore),
              solidPrinciplesScore  |-> Round(a.avgSolidScore),
              codeSmellsCount       |-> a.totalCodeSmells,
              criticalIssues        |-> << >>,
              recommendations       |-> MaintainabilityRecommendations(a)],
         bestPracticesAnalysis |->
             [languageIdiomScore     |-> Round(a.avgLanguageIdiomScore),
              designPatternUsage     |-> a.totalDesignPatterns,
              antiPatternsCount      |-> a.totalAntiPatterns,
              bestPracticeViolations |-> << >>,
              recommendations        |-> BestPracticesRecommendations(a)]])

\* generateCodeQualityAnalysis(metrics)
generateCodeQualityAnalysis(mapping) ==
    LetIn(SelectSeq(ObjectValues(mapping), LAMBDA m : Has(m, "codeQualityMetrics")),
          LAMBDA metricsWithQuality :
              IF Len(metricsWithQuality) = 0 THEN NoQualityAnalysis
              ELSE QualityAnalysisOf([k \in 1..Len(metricsWithQuality) |->
                                         metricsWithQuality[k].codeQualityMetrics]))

\* activityData?.summary: << >> when there is none, << summary >> otherwise
SummaryOf(activity) ==
    IF Has(activity, "summary") THEN << activity.summary >> ELSE << >>

\* parseFloat(summary[period]?.mergeRate || '0')
PeriodMergeRate(summary, period) ==
    IF Has(summary, period) /\ Has(summary[period], "mergeRate")
       /\ summary[period].mergeRate # ""
    THEN ParseFloat(summary[period].mergeRate)
    ELSE ParseFloat("0")

MergeRateSwing == 10
LowActivityPRs == 5

\* SummaryFindings taking a swing of exactly MergeRateSwing points for a trend
SummaryFindingsInclusive(summary) ==
    LetIn(PeriodMergeRate(summary, "last30Days"), LAMBDA last30DayRate :
        LetIn(PeriodMergeRate(summary, "last90Days"), LAMBDA last90DayRate :
            (IF ~RatLess(RatSub(last90DayRate, Int2Rat(MergeRateSwing)), last30DayRate)
             THEN << << "Merge rate declining", last30DayRate, last90DayRate >> >>
             ELSE IF ~RatLess(last30DayRate, RatAdd(last90DayRate, Int2Rat(MergeRateSwing)))
             THEN << << "Merge rate improving", last30DayRate, last90DayRate >> >>
             ELSE << >>)
            \o (IF Has(summary, "last30Days") /\ Has(summary.last30Days, "totalPRs")
                   /\ summary.last30Days.totalPRs < LowActivityPRs
                THEN << "Low activity in the last 30 days" >>
                ELSE << >>)))

\* timeBasedFindings for an activity summary
SummaryFindings(summary) ==
    LetIn(PeriodMergeRate(summary, "last30Days"), LAMBDA last30DayRate :
        LetIn(PeriodMergeRate(summary, "last90Days"), LAMBDA last90DayRate :
            (IF RatLess(last30DayRate, RatSub(last90DayRate, Int2Rat(MergeRateSwing)))
             THEN << << "Merge rate declining", last30DayRate, last90DayRate >> >>
             ELSE IF RatLess(RatAdd(last90DayRate, Int2Rat(MergeRateSwing)), last30DayRate)
             THEN << << "Merge rate improving", last30DayRate, last90DayRate >> >>
             ELSE << >>)
            \o (IF Has(summary, "last30Days") /\ Has(summary.last30Days, "totalPRs")
                   /\ summary.last30Days.totalPRs < LowActivityPRs
                THEN << "Low activity in the last 30 days" >>
                ELSE << >>)))

\* timeBasedFindings
TimeBasedFindings(activity) ==
    Flatten([k \in 1..Len(SummaryOf(activity)) |->
                SummaryFindings(SummaryOf(activity)[k])])

\* averagePRSize without the guard on prList.length
AveragePRSizeUnguarded(prList) ==
    RatDiv(Int2Rat(SumSeq([k \in 1..Len(prList) |-> PRSize(prList[k])])), Int2Rat(Len(prList)))

\* prList.length > 0 ? prList.reduce(...) / prList.length : 0
AveragePRSize(prList) ==
    IF Len(prList) > 0
    THEN RatDiv(Int2Rat(SumSeq([k \in 1..Len(prList) |-> PRSize(prList[k])])), Int2Rat(Len(prList)))
    ELSE Zero

\* totalAdditions > 0 ? (totalTestAdditions / totalAdditions) * 100 : 0
TestToCodeRatio(totalTestAdditions, totalAdditions) ==
    IF totalAdditions > 0
    THEN RatMul(RatDiv(Int2Rat(totalTestAdditions), Int2Rat(totalAdditions)), Int2Rat(100))
    ELSE Zero

\* metricsArray.reduce((sum, m) => sum + m[field], 0)
Total(metricsArray, field) == SumSeq([k \in 1..Len(metricsArray) |-> metricsArray[k][field]])

LowQualityScore == 70

\* codeQualityFindings
CodeQualityFindings(codeQuality) ==
    (IF codeQuality.overallScore < LowQualityScore
     THEN << << "Low code quality score", codeQuality.overallScore >> >>
     ELSE << >>)
    \o (IF RatLess(Int2Rat(CyclomaticThreshold),
                   codeQuality.complexityAnalysis.averageCyclomaticComplexity)
        THEN << << "High cyclomatic complexity",
                   codeQuality.complexityAnalysis.averageCyclomaticComplexity >> >>
        ELSE << >>)
    \o (IF RatLess(Int2Rat(DuplicationLimit),
                   codeQuality.maintainabilityAnalysis.duplicationPercentage)
        THEN << << "Code duplication detected",
                   codeQuality.maintainabilityAnalysis.duplicationPercentage >> >>
        ELSE << >>)
    \o (IF codeQuality.bestPracticesAnalysis.antiPatternsCount > 0
        THEN << << codeQuality.bestPracticesAnalysis.antiPatternsCount,
                   "anti-patterns detected" >> >>
        ELSE << >>)

\* the result record, from the pattern patterns and the code-quality summary
AnalysisResultOf(prList, metricsArray, config, activity, today, patterns, codeQuality) ==
    [totalPRsAnalyzed  |-> Len(prList),
     reviewFocus       |-> config.reviewFocus,
     selectionCriteria |-> config.prSelection,
     analysisDate      |-> today,
     metrics |->
         [totalAdditions       |-> Total(metricsArray, "totalAdditions"),
          totalDeletions       |-> Total(metricsArray, "totalDeletions"),
          totalTestAdditions   |-> Total(metricsArray, "testAdditions"),
          totalDocAdditions    |-> Total(metricsArray, "docAdditions"),
          testToCodeRatio      |-> TestToCodeRatio(Total(metricsArray, "testAdditions"),
                                                   Total(metricsArray, "totalAdditions")),
          mergeRate            |-> MergeRate(prList),
          averagePRSize        |-> AveragePRSize(prList),
          averageComplexity    |->
              codeQuality.complexityAnalysis.averageCyclomaticComplexity,
          codeQualityScore     |-> codeQuality.overallScore,
          maintainabilityIndex |->
              Rat(codeQuality.maintainabilityAnalysis.namingConventionScore
                  + codeQuality.maintainabilityAnalysis.solidPrinciplesScore, 2)],
     findings        |-> patterns.findings \o TimeBasedFindings(activity)
                         \o CodeQualityFindings(codeQuality),
     recommendations |-> patterns.recommendations,
     risks           |-> patterns.risks,
     codeQuality     |-> codeQuality]

\* generateAnalysisResult(prs, metrics, config, activityData); today is what
\* new Date().toISOString().split('T')[0] gives at the time of the call
generateAnalysisResult(prList, mapping, config, activity, today) ==
    LetIn(analyzePRPatterns(prList, mapping), LAMBDA patterns :
        LetIn(generateCodeQualityAnalysis(mapping), LAMBDA codeQuality :
            AnalysisResultOf(prList, ObjectValues(mapping), config, activity, today,
                             patterns, codeQuality)))

(***************************************************************************)
(* PerformanceAnalysisTools: generatePerformanceInsights                   *)
(***************************************************************************)
\* the sixteen counters of a PerformanceIssues record
Counters ==
    {"nPlusOneQueries", "inefficientJoins", "missingIndexSuggestions",
     "queryOptimizationOpportunities", "algorithmicComplexityIssues",
     "memoryLeakPatterns", "inefficientLoops", "resourceManagementIssues",
     "blockingOperations", "asyncAwaitIssues", "eventLoopBlocking",
     "performanceAntiPatterns", "bundleSizeIssues", "renderPerformanceIssues",
     "memoryUsageIssues", "networkOptimizationIssues"}

NoRisk == << >>
Risk(level, description) == << [level |-> level, description |-> description] >>

\* the checks of generatePerformanceInsights, in the order written: the
\* counter read, the text of the finding, the recommendation and the risk
InsightRules ==
    << [counter |-> "nPlusOneQueries",
        finding |-> "potential N+1 query patterns detected",
        recommendation |->
            "Review query patterns and consider using eager loading or batching",
        risk |-> Risk("high",
                      "N+1 queries can severely impact database performance under load")],
       [counter |-> "inefficientJoins",
        finding |-> "potentially inefficient join patterns found",
        recommendation |-> "Optimize join queries and ensure proper indexing",
        risk |-> Risk("medium", "Inefficient joins can cause slow query performance")],
       [counter |-> "missingIndexSuggestions",
        finding |-> "queries that might benefit from indexes",
        recommendation |->
            "Consider adding database indexes for frequently queried columns",
        risk |-> NoRisk],
       [counter |-> "algorithmicComplexityIssues",
        finding |-> "potentially high-complexity algorithms detected",
        recommendation |-> "Review algorithm efficiency and consider optimization",
        risk |-> Risk("medium",
                      "High algorithmic complexity can cause performance bottlenecks")],
       [counter |-> "memoryLeakPatterns",
        finding |-> "potential memory leak patterns found",
        recommendation |-> "Review memory management and ensure proper cleanup",
        risk |-> Risk("high",
                      "Memory leaks can cause application instability and crashes")],
       [counter |-> "inefficientLoops",
        finding |-> "inefficient loop patterns detected",
        recommendation |->
            "Consider optimizing loops or using more efficient data structures",
        risk |-> NoRisk],
       [counter |-> "blockingOperations",
        finding |-> "blocking operations detected in async context",
        recommendation |-> "Replace blocking operations with async alternatives",
        risk |-> Risk("high",
                      "Blocking operations can freeze the event loop and degrade performance")],
       [counter |-> "asyncAwaitIssues",
        finding |-> "async/await pattern issues found",
        recommendation |->
            "Review async/await usage for proper error handling and performance",
        risk |-> NoRisk],
       [counter |-> "bundleSizeIssues",
        finding |-> "potential bundle size optimization opportunities",
        recommendation |-> "Consider code splitting, tree shaking, or lazy loading",
        risk |-> NoRisk],
       [counter |-> "renderPerformanceIssues",
        finding |-> "potential render performance issues",
        recommendation |->
            "Review component rendering patterns and consider memoization",
        risk |-> NoRisk] >>

\* a check that fires whatever the counter is
FiresAlways(count) == count >= 0

\* issues.<counter> > 0
Fires(count) == count > 0

\* generatePerformanceInsights(issues): {findings, recommendations, risks}
generatePerformanceInsights(perfIssues) ==
    LetIn(SelectSeq(InsightRules, LAMBDA rule : Fires(perfIssues[rule.counter])),
          LAMBDA fired :
              [findings        |-> [k \in 1..Len(fired) |->
                                       << perfIssues[fired[k].counter], fired[k].finding >>],
               recommendations |-> [k \in 1..Len(fired) |-> fired[k].recommendation],
               risks           |-> Flatten([k \in 1..Len(fired) |-> fired[k].risk])])

(***************************************************************************)
(* AnalysisTools.selectPRs                                                 *)
(***************************************************************************)
Digits == {"0", "1", "2", "3", "4", "5", "6", "7", "8", "9"}

\* new Date(text).getTime() for a date "YYYY-MM-DD", in days and with months
\* of 31 days: the order of the dates is kept, and differences are exact
\* from December to January, the months of the model's dates
DateTime(text) ==
    (DigitsValue(text, 1, 4) * 12 + DigitsValue(text, 6, 7)) * 31 + DigitsValue(text, 9, 10)

\* parseInt(text): the integer written at the start of text, after spaces and
\* an optional minus sign; NaN when no digit is there
ParseInt(text) ==
    LetIn(text, LAMBDA s :
        LetIn(SetMax(ReStar(s, {1}, SpaceChars, FALSE)), LAMBDA signAt :
            LetIn(IF signAt <= Len(s) /\ Ch(s, signAt) = "-" THEN signAt + 1 ELSE signAt,
                  LAMBDA from :
                      LetIn(SetMax(ReStar(s, {from}, Digits, FALSE)), LAMBDA end :
                          IF end = from THEN NaN
                          ELSE IF from > signAt
                               THEN Int2Rat(0 - DigitsValue(s, from, end - 1))
                               ELSE Int2Rat(DigitsValue(s, from, end - 1))))))

\* parseInt(criteria.split(' ')[1]) || 5: NaN and 0 are falsy
SelectionDefault == 5

CountOf(criteria) ==
    LetIn(ParseInt(Split(criteria, " ")[2]), LAMBDA n :
        IF n = NaN \/ n = Zero THEN SelectionDefault ELSE n[1])

\* list.slice(0, n)
SliceTo(list, n) ==
    IF n >= 0 THEN SubSeq(list, 1, Min(n, Len(list)))
    ELSE SubSeq(list, 1, Max(0, Len(list) + n))

\* [...list].sort((a, b) => Key(b) - Key(a)): the larger keys first, equal
\* keys in the order of the list (the sort is stable)
SortDescending(list, Key(_)) ==
    LetIn([i \in 1..Len(list) |-> Key(list[i])], LAMBDA key :
        LetIn([i \in 1..Len(list) |->
                  1 + Cardinality({ j \in 1..Len(list) :
                                      key[j] > key[i] \/ (key[j] = key[i] /\ j < i) })],
              LAMBDA place :
                  [k \in 1..Len(list) |-> list[CHOOSE i \in 1..Len(list) : place[i] = k]]))

\* the first of the criteria that need a time frame: how many days back
WeekDays == 7
MonthDays == 30
QuarterDays == 90
UnreviewedLimit == 10

CreatedSince(sorted, now, days) ==
    Filter(sorted, LAMBDA pr : DateTime(pr.createdAt) >= DateTime(now) - days)

\* selectPRs(prs, criteria), called on the day `now`
selectPRs(prList, criteria, now) ==
    LetIn(SortDescending(prList, LAMBDA pr : DateTime(pr.createdAt)), LAMBDA sorted :
        IF StartsWith(criteria, "last ")
        THEN SliceTo(sorted, CountOf(criteria))
        ELSE IF StartsWith(criteria, "largest ")
        THEN SliceTo(SortDescending(Filter(prList, LAMBDA pr : Has(pr, "additions")),
                                    LAMBDA pr : pr.additions + pr.deletions),
                     CountOf(criteria))
        ELSE IF criteria = "unreviewed"
        THEN SliceTo(Filter(sorted, LAMBDA pr : pr.state = "OPEN"), UnreviewedLimit)
        ELSE IF criteria = "last-week" THEN CreatedSince(sorted, now, WeekDays)
        ELSE IF criteria = "last-30-days" THEN CreatedSince(sorted, now, MonthDays)
        ELSE IF criteria = "last-90-days" THEN CreatedSince(sorted, now, QuarterDays)
        ELSE IF criteria = "open" THEN Filter(sorted, LAMBDA pr : pr.state = "OPEN")
        ELSE SliceTo(sorted, SelectionDefault))

\* prs after prs.sort(...): Array.prototype.sort sorts the array it is
\* called on
AfterSortInPlace(prList) == SortDescending(prList, LAMBDA pr : DateTime(pr.createdAt))

\* prs after [...prs].sort(...): both sorts of selectPRs are called on a
\* copy, and filter and slice build new arrays, so prs keeps its order
AfterSortOfCopy(prList) == prList

(***************************************************************************)
(* PerformanceAnalysisTools: detectNPlusOneQueries                         *)
(***************************************************************************)
\* the added lines of a diff, their "+" kept
AddedLines(diff) ==
    Filter(Split(diff, "\n"),
           LAMBDA line : StartsWith(line, "+") /\ ~StartsWith(line, "+++"))

\* line.includes('for (') || line.includes('for(')
OpensLoop(line) == Includes(line, "for (") \/ Includes(line, "for(")

\* the test of detectNPlusOneQueries for a database query
LooksLikeQuery(line) ==
    \/ Includes(line, "prisma.")
    \/ Includes(line, ".findMany")
    \/ Includes(line, ".findOne")
    \/ Includes(line, ".findAll")
    \/ (Includes(line, "await") /\ Includes(line, ".find"))

\* one iteration of detectNPlusOneQueries' loop
NPlusOneLine(st, line) ==
    LetIn(st.inLoop \/ OpensLoop(line), LAMBDA inLoop :
        [count  |-> IF inLoop /\ LooksLikeQuery(line) THEN st.count + 1 ELSE st.count,
         inLoop |-> IF Includes(line, "}") THEN FALSE ELSE inLoop])

RECURSIVE NPlusOneLines(_, _, _)
NPlusOneLines(st, lines, k) ==
    IF k > Len(lines) THEN st
    ELSE LetIn(NPlusOneLine(st, lines[k]),
               LAMBDA next : NPlusOneLines(next, lines, k + 1))

\* detectNPlusOneQueries(lines)
detectNPlusOneQueries(lines) ==
    NPlusOneLines([count |-> 0, inLoop |-> FALSE], lines, 1).count

(***************************************************************************)
(* DocumentationAnalysisTools: analyzeTypeScriptDocs                       *)
(***************************************************************************)
\* (?:M\s+)? for a literal M: the positions stay, or move past M and spaces
ReOptWord(s, P, w) == P \cup RePlus(s, ReLit(s, P, w), SpaceChars, FALSE)

\* keyword\s+(\w+)
DocNamed(s, P, keyword) ==
    RePlus(s, RePlus(s, ReLit(s, P, keyword), SpaceChars, FALSE), WordChars, FALSE)

\* \([^)]*\)
DocParens(s, P) == ReLit(s, ReStar(s, ReLit(s, P, "("), {")"}, TRUE), ")")

\* (?:\([^)]*\)\s*=>|\([^)]*\):\s*\w+\s*=>|function)
DocFunctionValue(s, P) ==
    ReLit(s, ReStar(s, DocParens(s, P), SpaceChars, FALSE), "=>")
    \cup ReLit(s, ReStar(s, RePlus(s, ReStar(s, ReLit(s, DocParens(s, P), ":"),
                                             SpaceChars, FALSE),
                                   WordChars, FALSE),
                         SpaceChars, FALSE), "=>")
    \cup ReLit(s, P, "function")

\* const\s+(\w+)\s*=\s*(?:async\s+)?(?:...)
DocConst(s, P) ==
    DocFunctionValue(s,
        ReOptWord(s, ReStar(s, ReLit(s, ReStar(s, DocNamed(s, P, "const"),
                                               SpaceChars, FALSE), "="),
                            SpaceChars, FALSE), "async"))

\* (?:function\s+(\w+)|const\s+(\w+)\s*=...)
DocDeclaration(s, P) == DocNamed(s, P, "function") \cup DocConst(s, P)

\* (?:export\s+)?(?:async\s+)?
DocPrefix(s, P) == ReOptWord(s, ReOptWord(s, P, "export"), "async")

\* functionRegex
functionRegex(s, P) == DocDeclaration(s, DocPrefix(s, P))

\* classRegex: (?:export\s+)?class\s+(\w+)
classRegex(s, P) == DocNamed(s, ReOptWord(s, P, "export"), "class")

\* the (\w+) after keyword\s+ at position q: the whole run of word characters
DocGroup(s, q, keyword) ==
    LetIn(SetMax(RePlus(s, ReLit(s, {q}, keyword), SpaceChars, FALSE)), LAMBDA from :
        SubSeq(s, from, SetMax(RePlus(s, {from}, WordChars, FALSE)) - 1))

\* functionMatch[1] || functionMatch[2] of the leftmost match
functionName(line) ==
    LetIn(line, LAMBDA s :
    LetIn(ReFirst(functionRegex, s, 1), LAMBDA st :
    LetIn(CHOOSE q \in DocPrefix(s, {st}) : DocDeclaration(s, {q}) # {}, LAMBDA q :
        IF DocNamed(s, {q}, "function") # {} THEN DocGroup(s, q, "function")
        ELSE DocGroup(s, q, "const"))))

\* classMatch[1] of the leftmost match
className(line) ==
    LetIn(line, LAMBDA s :
    LetIn(ReFirst(classRegex, s, 1), LAMBDA st :
    LetIn(CHOOSE q \in ReOptWord(s, {st}, "export") : DocNamed(s, {q}, "class") # {},
          LAMBDA q : DocGroup(s, q, "class"))))

\* String.prototype.endsWith
EndsWith(s, w) == Len(s) >= Len(w) /\ At(s, Len(s) - Len(w) + 1, w)

\* the counters and the locals before the first line
DocStart ==
    [totalFunctions |-> 0, documentedFunctions |-> 0,
     totalClasses |-> 0, documentedClasses |-> 0,
     totalExports |-> 0, documentedExports |-> 0,
     inlineCommentLines |-> 0, blockCommentLines |-> 0,
     todoCount |-> 0, fixmeCount |-> 0,
     undocumentedSymbols |-> << >>,
     inBlockComment |-> FALSE, lastDocBlock |-> << >>]

\* the counting of inline comments
DocInline(st, trimmedLine) ==
    IF StartsWith(trimmedLine, "//")
    THEN [st EXCEPT !.inlineCommentLines = @ + 1,
                    !.todoCount = @ + (IF Includes(ToLowerCase(trimmedLine), "todo") THEN 1 ELSE 0),
                    !.fixmeCount = @ + (IF Includes(ToLowerCase(trimmedLine), "fixme") THEN 1 ELSE 0)]
    ELSE st

\* the tracking of block comments: the line that opens a block is not
\* tested for the closing */
DocBlock(st, trimmedLine) ==
    IF StartsWith(trimmedLine, "/**")
    THEN [st EXCEPT !.inBlockComment = TRUE, !.lastDocBlock = << trimmedLine >>]
    ELSE IF st.inBlockComment
         THEN LetIn([st EXCEPT !.lastDocBlock = Append(@, trimmedLine)], LAMBDA a :
                  IF EndsWith(trimmedLine, "*/")
                  THEN [a EXCEPT !.inBlockComment = FALSE,
                                 !.blockCommentLines = @ + Len(a.lastDocBlock)]
                  ELSE a)
         ELSE st

\* lastDocBlock.length > 0 && lastDocBlock[0].includes('/**')
HasDoc(st) == Len(st.lastDocBlock) > 0 /\ Includes(st.lastDocBlock[1], "/**")

\* if (!inBlockComment) lastDocBlock = []
DocConsumed(st) == IF st.inBlockComment THEN st ELSE [st EXCEPT !.lastDocBlock = << >>]

\* a line functionRegex matches
DocFunction(st, line) ==
    IF ~ReTest(functionRegex, line) THEN st
    ELSE DocConsumed(
             IF HasDoc(st)
             THEN [st EXCEPT !.totalFunctions = @ + 1, !.documentedFunctions = @ + 1]
             ELSE IF functionName(line) # "" /\ ~StartsWith(functionName(line), "_")
                  THEN [st EXCEPT !.totalFunctions = @ + 1,
                                  !.undocumentedSymbols =
                                      Append(@, "function " \o functionName(line))]
                  ELSE [st EXCEPT !.totalFunctions = @ + 1])

\* a line classRegex matches
DocClass(st, line) ==
    IF ~ReTest(classRegex, line) THEN st
    ELSE DocConsumed(
             IF HasDoc(st)
             THEN [st EXCEPT !.totalClasses = @ + 1, !.documentedClasses = @ + 1]
             ELSE IF className(line) # ""
                  THEN [st EXCEPT !.totalClasses = @ + 1,
                                  !.undocumentedSymbols =
                                      Append(@, "class " \o className(line))]
                  ELSE [st EXCEPT !.totalClasses = @ + 1])

\* the counting of exports; i is the index of the line, from 0
DocExport(st, trimmedLine, i) ==
    IF StartsWith(trimmedLine, "export")
    THEN [st EXCEPT !.totalExports = @ + 1,
                    !.documentedExports =
                        @ + (IF Len(st.lastDocBlock) > 0 /\ i - Len(st.lastDocBlock) < 3
                             THEN 1 ELSE 0)]
    ELSE st

\* the doc block is dropped at a line of code that declares nothing
DocClear(st, line, trimmedLine) ==
    IF /\ ~st.inBlockComment
       /\ ~StartsWith(trimmedLine, "*")
       /\ ~StartsWith(trimmedLine, "//")
       /\ ~ReTest(functionRegex, line)
       /\ ~ReTest(classRegex, line)
       /\ Len(trimmedLine) > 0
       /\ ~StartsWith(trimmedLine, "export")
    THEN [st EXCEPT !.lastDocBlock = << >>]
    ELSE st

\* one turn of the loop over the lines
DocLine(st, line, i) ==
    LetIn(Trim(line), LAMBDA trimmedLine :
        DocClear(DocExport(DocClass(DocFunction(DocBlock(DocInline(st, trimmedLine),
                                                         trimmedLine),
                                                line),
                                    line),
                           trimmedLine, i),
                 line, trimmedLine))

RECURSIVE DocLines(_, _, _)
DocLines(st, lines, k) ==
    IF k > Len(lines) THEN st ELSE DocLines(DocLine(st, lines[k], k - 1), lines, k + 1)

\* the lines that are neither blank nor comments
DocCodeLines(lines) ==
    Len(Filter(lines, LAMBDA l : /\ Len(Trim(l)) > 0
                                 /\ ~StartsWith(Trim(l), "//")
                                 /\ ~StartsWith(Trim(l), "*")))

\* commentToCodeRatio
DocRatio(st, lines) ==
    IF DocCodeLines(lines) > 0
    THEN Rat(st.inlineCommentLines + st.blockCommentLines, DocCodeLines(lines))
    ELSE Zero

\* the suggestions, in the order they are pushed
DocSuggestions(st, ratio) ==
    (IF 10 * st.documentedFunctions < 8 * st.totalFunctions
     THEN << "Add JSDoc comments to public functions" >> ELSE << >>)
    \o (IF st.documentedClasses < st.totalClasses
        THEN << "Document all classes with JSDoc comments" >> ELSE << >>)
    \o (IF RatLess(ratio, Rat(1, 10))
        THEN << "Add more inline comments to explain complex logic" >> ELSE << >>)
    \o (IF st.todoCount > 5 THEN << "Address " \o ToString(st.todoCount) \o " TODO comments" >> ELSE << >>)

\* how many undocumented symbols are returned
MaxUndocumentedSymbols == 10

analyzeTypeScriptDocs(content, filePath) ==
    LetIn(Split(content, "\n"), LAMBDA lines :
    LetIn(DocLines(DocStart, lines, 1), LAMBDA st :
    LetIn(DocRatio(st, lines), LAMBDA ratio :
        [path |-> filePath,
         language |-> "typescript",
         metrics |-> [totalFunctions |-> st.totalFunctions,
                      documentedFunctions |-> st.documentedFunctions,
                      totalClasses |-> st.totalClasses,
                      documentedClasses |-> st.documentedClasses,
                      totalMethods |-> 0, documentedMethods |-> 0,
                      totalParameters |-> 0, documentedParameters |-> 0,
                      totalExports |-> st.totalExports,
                      documentedExports |-> st.documentedExports,
                      inlineCommentLines |-> st.inlineCommentLines,
                      blockCommentLines |-> st.blockCommentLines,
                      todoCount |-> st.todoCount,
                      fixmeCount |-> st.fixmeCount,
                      commentToCodeRatio |-> ratio],
         undocumentedSymbols |-> SliceTo(st.undocumentedSymbols, MaxUndocumentedSymbols),
         suggestions |-> DocSuggestions(st, ratio)])))
(***************************************************************************)
(* GitHubTools: retryWithBackoff                                           *)
(***************************************************************************)
\* the defaults of maxRetries and delay; both callers pass fn alone
maxRetries == 3

InitialDelay == 1000

\* error.message?.includes(w): an error without a message includes nothing
MessageIncludes(error, w) == Has(error, "message") /\ Includes(error.message, w)

\* every error is taken for a network error
IsNetworkErrorAlways(error) == TRUE

\* the test of the catch block for a network error
IsNetworkError(error) ==
    \/ MessageIncludes(error, "ECONNREFUSED")
    \/ MessageIncludes(error, "fetch failed")
    \/ (Has(error, "code") /\ error.code = "ECONNREFUSED")

\* what the catch block does with the error of attempt k (from 0)
Caught(error, k) ==
    IF k = maxRetries - 1 THEN "throw"
    ELSE IF IsNetworkError(error) THEN "sleep"
    ELSE "throw"
(***************************************************************************)
(* Inputs                                                                  *)
(***************************************************************************)
\* the sequences of at most n elements of S, those of m to n elements, and
\* those without repetition
SeqsUpTo(S, n) == UNION { [1..k -> S] : k \in 0..n }
SeqsBetween(S, m, n) == UNION { [1..k -> S] : k \in m..n }
DistinctSeqsUpTo(S, n) ==
    { q \in SeqsUpTo(S, n) : \A i, j \in 1..Len(q) : q[i] = q[j] => i = j }

\* the lines the diffs of SpecParse are made of
DiffLines ==
    {"diff --git a/a.ts b/a.ts",    \* a file header
     "diff --git",                  \* starts like a header, names no paths
     "+f() {}",                     \* an added line (a function)
     "-f() {",                      \* a deleted line
     " f() {",                      \* an unchanged context line
     "@@ -1 +1 @@",                 \* a hunk header
     "--- a/a.ts",                  \* the old-file marker
     "+++ b/a.ts",                  \* the new-file marker
     ""}

MaxDiffLines == 3

\* the diff texts of SpecParse; the text of no lines is the empty string
DiffTexts == { Join(ls, "\n") : ls \in SeqsUpTo(DiffLines, MaxDiffLines) }

\* the language hints: "" is an absent hint
Hints == {"", "python"}

\* the added lines the diffs of SpecFn are made of
CodeLines ==
    {"function f() {",
     "if (a) {",
     "  if (a) b; else if (c) d;",
     "} else {",
     "}",
     "notif = 1;"}

MaxCodeLines == 3

\* the header of file f with its added lines ls, as diff lines
FileDiff(f, ls) ==
    << "diff --git a/" \o f \o " b/" \o f >> \o [k \in 1..Len(ls) |-> "+" \o ls[k]]

FnTexts == { Join(FileDiff("src/f.ts", ls), "\n") : ls \in SeqsUpTo(CodeLines, MaxCodeLines) }

\* the added lines of the two files of the diffs of SpecDup: the first file
\* has minBlockSize lines, the second minBlockSize to MaxDupLines lines and
\* a blank one
DupLines == {"x", "y"}

MaxDupLines == 6

\* the second file has a blank added line after its second line
WithBlank(ls) == SubSeq(ls, 1, 2) \o << " " >> \o SubSeq(ls, 3, Len(ls))

DupTexts ==
    { Join(FileDiff("a.ts", la) \o FileDiff("b.ts", WithBlank(lb)), "\n") :
        la \in SeqsBetween(DupLines, minBlockSize, minBlockSize),
        lb \in SeqsBetween(DupLines, minBlockSize, MaxDupLines) }

\* pull requests as searchPRs returns them; the third has no size yet
PRSample(number, state) ==
    [number |-> number, repository |-> [nameWithOwner |-> "o/r"], state |-> state,
     createdAt |-> IF number = 1 THEN "2024-12-20" ELSE "2024-12-28"]

PRSamples ==
    { PRSample(1, "MERGED") @@ [additions |-> 10, deletions |-> 5],
      PRSample(2, "OPEN") @@ [additions |-> 2000, deletions |-> 0],
      PRSample(3, "CLOSED") }

MaxPRs == 2

\* the metrics of a diff of one function
OneFunctionQuality == analyzeCodeQuality("diff --git a/a.ts b/a.ts\n+f() {}", "")

\* the same with the cyclomatic scores and the duplication percentage set
QualitySample(cyclomatic, duplication) ==
    [OneFunctionQuality EXCEPT
        !.cyclomaticComplexity.average = Int2Rat(cyclomatic),
        !.cyclomaticComplexity.maximum = cyclomatic,
        !.cyclomaticComplexity.files[1].score = Int2Rat(cyclomatic),
        !.cyclomaticComplexity.files[1].functions[1].score = cyclomatic,
        !.codeDuplication.percentage = Int2Rat(duplication)]

PlainMetrics(test, doc, security, total) ==
    [testAdditions |-> test, docAdditions |-> doc, securityPatternMatches |-> security,
     totalAdditions |-> total, totalDeletions |-> 20, filesChanged |-> 2]

\* PRMetrics without code-quality metrics
PlainSamples == { PlainMetrics(0, 0, 0, 0), PlainMetrics(10, 0, 1, 100) }

\* PRMetrics, with and without code-quality metrics
MetricSamples ==
    PlainSamples
    \cup { PlainMetrics(10, 0, 1, 100) @@ [codeQualityMetrics |-> QualitySample(15, 0)],
           PlainMetrics(50, 10, 0, 100) @@ [codeQualityMetrics |-> QualitySample(1, 8)],
           PlainMetrics(0, 0, 0, 50) @@ [codeQualityMetrics |-> QualitySample(21, 0)] }

\* the values of the mapping enrichWithCodeQuality is given
BatchSamples ==
    { PlainMetrics(10, 0, 1, 100),
      PlainMetrics(50, 10, 0, 100) @@ [codeQualityMetrics |-> QualitySample(1, 8)] }

MaxChanges == 2

\* the key of the k-th change: `${nameWithOwner}#${number}`
KeyOf(nameWithOwner, number) == nameWithOwner \o "#" \o Ch("123456789", number)

\* a Record<string, PRMetrics> with the values ms
MappingOf(ms) == [k \in 1..Len(ms) |-> [key |-> KeyOf("o/r", k), value |-> ms[k]]]

Mappings == { MappingOf(ms) : ms \in SeqsUpTo(MetricSamples, MaxChanges) }

BatchMappings == { MappingOf(ms) : ms \in SeqsUpTo(BatchSamples, MaxChanges) }

\* the activity overviews: none, one without summary, and three summaries
Period(mergeRate, totalPRs) == [mergeRate |-> mergeRate, totalPRs |-> totalPRs]

ActivitySamples ==
    { Undefined,
      [username |-> "u"],
      [summary |-> [last30Days |-> Period("80.0", 3), last90Days |-> Period("50.5", 20)]],
      [summary |-> [last30Days |-> Period("40", 10), last90Days |-> Period("60.0", 30)]],
      [summary |-> [totalPRs |-> 40]] }

Config == [reviewFocus |-> "code quality", prSelection |-> "recent"]

Dates == {"2025-01-01", "2025-01-02"}

\* PerformanceIssues records with at most MaxNonZero counters over 0
MaxCount == 2
MaxNonZero == 2

IssueSamples ==
    UNION { { [c \in Counters |-> IF c \in on THEN n[c] ELSE 0] : n \in [on -> 1..MaxCount] } :
              on \in { S \in SUBSET Counters : Cardinality(S) <= MaxNonZero } }

\* how a call of getDiffContentFn ends: it throws or rejects, it resolves to
\* a value that is no text, or it resolves to a diff text
FetchOutcomes ==
    { [kind |-> "rejected"], [kind |-> "notText"] }
    \cup { [kind |-> "text", text |-> "diff --git a/a.ts b/a.ts\n+f() {}"] }

\* what getPRDetails resolves to
PRDetails == [additions |-> 7, deletions |-> 3, changedFiles |-> 1]

(***************************************************************************)
(* Initial states: each specification exercises one component and leaves   *)
(* the variables of the others idle                                        *)
(***************************************************************************)
IdleCQ == diffContent = "" /\ language = "" /\ files = << >> /\ metrics = NoResult

IdleAgg ==
    prs = << >> /\ prMetrics = << >> /\ activityData = Undefined /\ analysis = NoResult

IdlePerf == issues = [c \in Counters |-> 0] /\ insights = NoResult

IdleFlow == prSelection = "" /\ node = "" /\ agentState = Undefined

IdleDoc == docContent = "" /\ docAnalysis = NoResult

IdleRetry ==
    /\ retryPhase = "" /\ attempt = 0 /\ retryDelay = 0
    /\ outcomes = << >> /\ waits = << >> /\ retryResult = NoResult

IdleMore == IdleDoc /\ reportFiles = << >> /\ IdleRetry

IdleBatch ==
    /\ selectedPRs = << >>
    /\ prAnalysis = << >>
    /\ enrichedMetrics = << >>
    /\ cursor = 0
    /\ warnings = << >>

InitCQ(texts, hints) ==
    /\ pc = "start"
    /\ diffContent \in texts
    /\ language \in hints
    /\ files = << >>
    /\ metrics = NoResult
    /\ IdleAgg /\ IdlePerf /\ IdleBatch /\ IdleFlow /\ IdleMore

InitParse == InitCQ(DiffTexts, Hints)

InitFn == InitCQ(FnTexts, {""})

InitDup == InitCQ(DupTexts, {""})

InitAgg ==
    /\ pc = "start"
    /\ prs \in SeqsUpTo(PRSamples, MaxPRs)
    /\ prMetrics \in Mappings
    /\ activityData \in ActivitySamples
    /\ analysis = NoResult
    /\ IdleCQ /\ IdlePerf /\ IdleBatch /\ IdleFlow /\ IdleMore

InitPerf ==
    /\ pc = "start"
    /\ issues \in IssueSamples
    /\ insights = NoResult
    /\ IdleCQ /\ IdleAgg /\ IdleBatch /\ IdleFlow /\ IdleMore

InitBatch ==
    /\ pc = "start"
    /\ selectedPRs \in DistinctSeqsUpTo(PRSamples, MaxPRs)
    /\ prMetrics \in BatchMappings
    /\ prAnalysis = << >>
    /\ enrichedMetrics = << >>
    /\ cursor = 0
    /\ warnings = << >>
    /\ prs = << >> /\ activityData = Undefined /\ analysis = NoResult
    /\ IdleCQ /\ IdlePerf /\ IdleFlow /\ IdleMore

(***************************************************************************)
(* Actions                                                                 *)
(***************************************************************************)
\* a call of analyzeCodeQuality(diffContent, language)
AnalyzeCodeQuality ==
    /\ pc = "start"
    /\ pc' = "done"
    /\ files' = parseDiffFiles(diffContent)
    /\ metrics' = QualityOf(files', language)
    /\ UNCHANGED <<diffContent, language, aggVars, perfVars, batchVars, flowVars, moreVars>>

\* a call of generateCodeQualityAnalysis(prMetrics)
GenerateCodeQualityAnalysis ==
    /\ pc = "start"
    /\ pc' = "generateCodeQualityAnalysis"
    /\ analysis' = generateCodeQualityAnalysis(prMetrics)
    /\ UNCHANGED <<prs, prMetrics, activityData, cqVars, perfVars, batchVars, flowVars, moreVars>>

\* a call of generateAnalysisResult(prs, prMetrics, config, activityData)
GenerateAnalysisResult ==
    /\ pc = "start"
    /\ pc' = "generateAnalysisResult"
    /\ \E today \in Dates :
           analysis' = generateAnalysisResult(prs, prMetrics, Config, activityData, today)
    /\ UNCHANGED <<prs, prMetrics, activityData, cqVars, perfVars, batchVars, flowVars, moreVars>>

\* a call of generatePerformanceInsights(issues)
GeneratePerformanceInsights ==
    /\ pc = "start"
    /\ pc' = "generatePerformanceInsights"
    /\ insights' = generatePerformanceInsights(issues)
    /\ UNCHANGED <<issues, cqVars, aggVars, batchVars, flowVars, moreVars>>

\* enrichedMetrics[prKey] = value
SetKey(record, key, value) ==
    IF \E k \in 1..Len(record) : record[k].key = key
    THEN [k \in 1..Len(record) |->
             IF record[k].key = key THEN [key |-> key, value |-> value] ELSE record[k]]
    ELSE Append(record, [key |-> key, value |-> value])

\* enrichWithCodeQuality(prMetrics, getDiffContentFn) is entered
EnrichBegin ==
    /\ pc = "start"
    /\ pc' = "enrichWithCodeQuality"
    /\ enrichedMetrics' = << >>
    /\ cursor' = 0
    /\ UNCHANGED <<selectedPRs, prAnalysis, warnings, cqVars, aggVars, perfVars, flowVars, moreVars>>

\* the text console.warn is given when the enrichment of prKey fails
EnrichWarning(prKey) == "Failed to analyze code quality for " \o prKey

\* { ...prMetric, codeQualityMetrics }
WithCodeQuality(prMetric, codeQualityMetrics) ==
    [f \in DOMAIN prMetric \cup {"codeQualityMetrics"} |->
        IF f = "codeQualityMetrics" THEN codeQualityMetrics ELSE prMetric[f]]

\* EnrichEntry without the try / catch: what getDiffContentFn or the analysis
\* throws ends the loop
EnrichEntryRethrowing(entry, fetched) ==
    IF fetched.kind \in {"rejected", "notText"}
    THEN /\ enrichedMetrics' = enrichedMetrics
         /\ warnings' = warnings
         /\ cursor' = Len(prMetrics)
    ELSE /\ enrichedMetrics' =
                SetKey(enrichedMetrics, entry.key,
                       WithCodeQuality(entry.value, analyzeCodeQuality(fetched.text, "")))
         /\ warnings' = warnings
         /\ cursor' = cursor + 1

\* the body of enrichWithCodeQuality's loop for one entry, fetched being how
\* the call of getDiffContentFn ends; analyzeCodeQuality throws a TypeError
\* for a value that has no split method
EnrichEntry(entry, fetched) ==
    IF fetched.kind \in {"rejected", "notText"}
    THEN /\ warnings' = Append(warnings, EnrichWarning(entry.key))
         /\ enrichedMetrics' = SetKey(enrichedMetrics, entry.key, entry.value)
         /\ cursor' = cursor + 1
    ELSE /\ enrichedMetrics' =
                SetKey(enrichedMetrics, entry.key,
                       WithCodeQuality(entry.value, analyzeCodeQuality(fetched.text, "")))
         /\ warnings' = warnings
         /\ cursor' = cursor + 1

\* one iteration of enrichWithCodeQuality's loop
EnrichOne ==
    /\ pc = "enrichWithCodeQuality"
    /\ cursor < Len(prMetrics)
    /\ \E fetched \in FetchOutcomes : EnrichEntry(prMetrics[cursor + 1], fetched)
    /\ UNCHANGED <<pc, selectedPRs, prAnalysis, cqVars, aggVars, perfVars, flowVars, moreVars>>

\* enrichWithCodeQuality returns enrichedMetrics
EnrichReturn ==
    /\ pc = "enrichWithCodeQuality"
    /\ cursor = Len(prMetrics)
    /\ pc' = "enriched"
    /\ UNCHANGED <<batchVars, cqVars, aggVars, perfVars, flowVars, moreVars>>

\* _analyzePRs(state) is entered, before or after a call of
\* enrichWithCodeQuality
AnalyzeBegin ==
    /\ pc \in {"start", "enriched"}
    /\ pc' = "_analyzePRs"
    /\ prAnalysis' = << >>
    /\ cursor' = 0
    /\ UNCHANGED <<selectedPRs, enrichedMetrics, warnings, cqVars, aggVars, perfVars, flowVars, moreVars>>

\* the three calls of githubTools made for one PR, each of which may throw
FetchSteps == {"getPRDetails", "getPRDiff", "analyzePRMetrics"}

\* the text console.warn is given when the analysis of a PR fails
AnalyzeWarning(number) == "Failed to analyze PR #" \o Ch("123456789", number)

\* pr.additions = prDetails.additions, and so for deletions and changedFiles
WithDetails(pr, prDetails) ==
    [f \in DOMAIN pr \cup {"additions", "deletions", "changedFiles"} |->
        IF f \in {"additions", "deletions", "changedFiles"} THEN prDetails[f] ELSE pr[f]]

\* the body of _analyzePRs' loop for the PR at index i; failed is the call
\* that threw ("" when none did), fetchedMetrics what analyzePRMetrics gave
AnalyzePR(i, failed, fetchedMetrics) ==
    IF failed \in FetchSteps
    THEN /\ warnings' = Append(warnings, AnalyzeWarning(selectedPRs[i].number))
         /\ UNCHANGED <<selectedPRs, prAnalysis>>
    ELSE /\ selectedPRs' = [selectedPRs EXCEPT ![i] = WithDetails(selectedPRs[i], PRDetails)]
         /\ prAnalysis' = SetKey(prAnalysis,
                                 KeyOf(selectedPRs[i].repository.nameWithOwner,
                                       selectedPRs[i].number),
                                 fetchedMetrics)
         /\ warnings' = warnings

\* one iteration of _analyzePRs' loop
AnalyzeOne ==
    /\ pc = "_analyzePRs"
    /\ cursor < Len(selectedPRs)
    /\ \E failed \in FetchSteps \cup {""}, fetchedMetrics \in PlainSamples :
           AnalyzePR(cursor + 1, failed, fetchedMetrics)
    /\ cursor' = cursor + 1
    /\ UNCHANGED <<pc, enrichedMetrics, cqVars, aggVars, perfVars, flowVars, moreVars>>

\* _analyzePRs returns {prAnalysis, currentStep: 'analysis_complete', ...}
AnalyzeReturn ==
    /\ pc = "_analyzePRs"
    /\ cursor = Len(selectedPRs)
    /\ pc' = "analysis_complete"
    /\ UNCHANGED <<batchVars, cqVars, aggVars, perfVars, flowVars, moreVars>>

NextCQ == AnalyzeCodeQuality

NextAgg == GenerateCodeQualityAnalysis \/ GenerateAnalysisResult

NextPerf == GeneratePerformanceInsights

NextBatch ==
    \/ EnrichBegin \/ EnrichOne \/ EnrichReturn
    \/ AnalyzeBegin \/ AnalyzeOne \/ AnalyzeReturn

SpecParse == InitParse /\ [][NextCQ]_vars

SpecFn == InitFn /\ [][NextCQ]_vars

SpecDup == InitDup /\ [][NextCQ]_vars

SpecAgg == InitAgg /\ [][NextAgg]_vars

SpecPerf == InitPerf /\ [][NextPerf]_vars

SpecBatch == InitBatch /\ [][NextBatch]_vars

(***************************************************************************)
(* SpecViol: diffs whose functions are long enough to cross the thresholds *)
(***************************************************************************)
\* a line that adds to the four scores of the function it is in
HeavyLine == "if (a) x; else {{{{{ y; }}}}}"

\* a line that adds to the length only
PlainLine == "x;"

MaxHeavyLines == 16

MaxBodyLines == 51

\* a second function, under every threshold
SecondFunction == <<"function g() {", "}">>

\* function f, left open, with h heavy lines for body, filled with plain
\* lines up to n lines when it has fewer
LongFunction(h, n) ==
    <<"function f() {">> \o [k \in 1..Max(h, n) |-> IF k <= h THEN HeavyLine ELSE PlainLine]

\* the bodies of f have no plain line, or reach the length threshold, or
\* MaxBodyLines lines
ViolTexts ==
    { Join(FileDiff("src/f.ts", LongFunction(h, n) \o rest), "\n") :
        h \in 0..MaxHeavyLines,
        n \in {0, LengthThreshold - 1, MaxBodyLines},
        rest \in {<< >>, SecondFunction} }

InitViol == InitCQ(ViolTexts, {""})

SpecViol == InitViol /\ [][NextCQ]_vars

(***************************************************************************)
(* SpecOrder: diffs of several files, of more than one language            *)
(***************************************************************************)
\* the paths of the files of the diffs of SpecOrder
OrderPaths == {"a.ts", "b.py", "c.ts"}

\* the added lines a file of SpecOrder can have
OrderBodies == { <<"f() {}">>, <<"def g():", "x = new Y()">> }

MaxFiles == 2

\* the per-file sections of a diff: a header and the added lines, as diff lines
Sections == { FileDiff(p, b) : p \in OrderPaths, b \in OrderBodies }

\* the path a section is for
SectionPath(section) == HeaderPath(section[1])

\* sequences of sections for different files
SectionSeqs ==
    { q \in SeqsUpTo(Sections, MaxFiles) :
        \A i, j \in 1..Len(q) : SectionPath(q[i]) = SectionPath(q[j]) => i = j }

\* the diff text made of the sections q
SectionsText(q) == Join(Flatten(q), "\n")

OrderTexts == { SectionsText(q) : q \in SectionSeqs }

InitOrder == InitCQ(OrderTexts, Hints)

SpecOrder == InitOrder /\ [][NextCQ]_vars

(***************************************************************************)
(* SpecSelect: calls of selectPRs                                          *)
(***************************************************************************)
\* the pull requests selectPRs is given: two of them were created the same
\* day, one has no size
SelectSamples == PRSamples \cup { [createdAt |-> "2025-01-01"] @@ PRSample(4, "OPEN") }

\* the count a "last N" or "largest N" criteria can name
MaxSelectCount == 3

\* the text of the number n < 10
NumberText(n) == Ch("0123456789", n + 1)

CriteriaSamples ==
    { "last " \o NumberText(n) : n \in 0..MaxSelectCount }
    \cup { "largest " \o NumberText(n) : n \in 1..MaxSelectCount }
    \cup { "last x", "unreviewed", "last-week", "open", "recent" }

InitSelect ==
    /\ pc = "start"
    /\ prs \in SeqsUpTo(SelectSamples, MaxPRs)
    /\ prSelection \in CriteriaSamples
    /\ node = "" /\ agentState = Undefined
    /\ prMetrics = << >> /\ activityData = Undefined /\ analysis = NoResult
    /\ IdleCQ /\ IdlePerf /\ IdleBatch /\ IdleMore

\* a call of selectPRs(prs, prSelection)
SelectPRs ==
    /\ pc = "start"
    /\ pc' = "selectPRs"
    /\ \E now \in Dates : selectedPRs' = selectPRs(prs, prSelection, now)
    /\ prs' = AfterSortOfCopy(prs)
    /\ UNCHANGED <<prAnalysis, enrichedMetrics, cursor, warnings, prMetrics,
                   activityData, analysis, cqVars, perfVars, flowVars, moreVars>>

NextSelect == SelectPRs

SpecSelect == InitSelect /\ [][NextSelect]_vars

(***************************************************************************)
(* SpecTrend: generateAnalysisResult over activity summaries               *)
(***************************************************************************)
\* merge rates as the activity report writes them, with their value in
\* tenths of a point
RateSamples ==
    { <<"40", 400>>, <<"50", 500>>, <<"50.5", 505>>,
      <<"60.0", 600>>, <<"60.5", 605>>, <<"61", 610>> }

RateTexts == { r[1] : r \in RateSamples }

\* the activity data of SpecTrend: none, data without a summary, a summary
\* without periods, and summaries with the merge rates of both periods
TrendSamples ==
    { Undefined, [username |-> "u"], [summary |-> [totalPRs |-> 40]] }
    \cup { [summary |-> [last30Days |-> Period(recent, 10), last90Days |-> Period(longer, 30)]] :
             recent \in RateTexts, longer \in RateTexts }

InitTrend ==
    /\ pc = "start"
    /\ prs \in SeqsUpTo(PRSamples, MaxPRs)
    /\ prMetrics = << >>
    /\ activityData \in TrendSamples
    /\ analysis = NoResult
    /\ IdleCQ /\ IdlePerf /\ IdleBatch /\ IdleFlow /\ IdleMore

NextTrend == GenerateAnalysisResult

SpecTrend == InitTrend /\ [][NextTrend]_vars

(***************************************************************************)
(* SpecOps: one function with logical operators and ternaries              *)
(***************************************************************************)
\* the added lines after the header of the function of SpecOps
OpLines ==
    {"if (a && b) x;",
     "y = a&&b || c;",
     "z = a||b ? c : d;",
     "w = c ?: d;",
     "else if (a) while (b) x;",
     "o = { a: {",
     "}"}

OpsTexts ==
    { Join(FileDiff("src/f.ts", << "function f() {" >> \o ls), "\n") :
        ls \in SeqsUpTo(OpLines, MaxCodeLines) }

InitOps == InitCQ(OpsTexts, {""})

SpecOps == InitOps /\ [][NextCQ]_vars

(***************************************************************************)
(* SpecFlow: GitHubAnalystAgent.analyze, the graph of six nodes            *)
(***************************************************************************)
\* Merge with the update taking the place of the whole state
MergeReplacing(state, update) == update

\* a last-value channel keeps its value unless the node's update names it
Merge(state, update) == update @@ state

\* the pull requests searchPRs can return: the last one has no repository
FlowSamples ==
    { PRSample(1, "MERGED") @@ [additions |-> 10, deletions |-> 5],
      PRSample(3, "CLOSED"),
      [number |-> 5, state |-> "OPEN", createdAt |-> "2024-12-30"] }

FlowCriteria == { "last 1", "recent" }

\* what analyzePRMetrics reports for a pull request
FlowMetrics == PlainMetrics(10, 0, 1, 100)

\* what the model answers in generate_report
AIInsights == [insights |-> << "insight" >>, recommendations |-> << "advice" >>]

\* the activity report generate_report can read
FlowActivities ==
    { Undefined,
      [summary |-> [last30Days |-> Period("40", 10), last90Days |-> Period("60.0", 30)]] }

\* the update of a node whose catch block ran
Failure(message) == [error |-> message, currentStep |-> "error"]

\* state.<field> || fallback
FieldOr(state, field, fallback) == IF Has(state, field) THEN state[field] ELSE fallback

\* the first selected pull request whose repository cannot be read, or one
\* past the end
FirstBroken(list) ==
    IF \E k \in 1..Len(list) : ~Has(list[k], "repository")
    THEN CHOOSE k \in 1..Len(list) :
             /\ ~Has(list[k], "repository")
             /\ \A j \in 1..(k - 1) : Has(list[j], "repository")
    ELSE Len(list) + 1

\* prAnalysis after the first k pull requests, those of ok analysed
RECURSIVE AnalysisOf(_, _, _)
AnalysisOf(list, ok, k) ==
    IF k = 0 THEN << >>
    ELSE LET rest == AnalysisOf(list, ok, k - 1)
         IN  IF k \in ok
             THEN SetKey(rest, KeyOf(list[k].repository.nameWithOwner, list[k].number),
                         FlowMetrics)
             ELSE rest

\* the selected pull requests with the details written into those of ok
Detailed(list, ok) ==
    [k \in 1..Len(list) |-> IF k \in ok THEN WithDetails(list[k], PRDetails) ELSE list[k]]

InitFlow ==
    /\ pc = "start"
    /\ prSelection \in FlowCriteria
    /\ node = "generate_overview"
    /\ agentState = [currentStep |-> "started"]
    /\ reportFiles = << >>
    /\ IdleCQ /\ IdleAgg /\ IdlePerf /\ IdleBatch /\ IdleDoc /\ IdleRetry

\* the part of every node's step outside the graph state and the files
FlowRest == UNCHANGED <<pc, prSelection, cqVars, aggVars, perfVars, batchVars, docVars, retryVars>>

FlowFrame == FlowRest /\ UNCHANGED reportFiles

\* _generateOverview
GenerateOverview ==
    /\ node = "generate_overview"
    /\ node' = "select_prs"
    /\ \E update \in { [overviewData |-> [username |-> "u", reportPath |-> "insights/u.json"],
                        currentStep |-> "overview_complete"],
                       Failure("Failed to generate overview") } :
           agentState' = Merge(agentState, update)
    /\ FlowFrame

\* _selectPRs
SelectPRsNode ==
    /\ node = "select_prs"
    /\ node' = "analyze_prs"
    /\ \/ \E allPRs \in SeqsUpTo(FlowSamples, MaxPRs), now \in Dates :
              agentState' = Merge(agentState,
                                  [selectedPRs |-> selectPRs(allPRs, prSelection, now),
                                   currentStep |-> "prs_selected"])
       \/ agentState' = Merge(agentState, Failure("Failed to select PRs"))
    /\ FlowFrame

\* _analyzePRs: the pull requests are updated in place, also when the loop
\* is left by an exception
AnalyzePRs ==
    /\ node = "analyze_prs"
    /\ node' = "generate_report"
    /\ LET list == FieldOr(agentState, "selectedPRs", << >>)
           stop == FirstBroken(list)
       IN  \E ok \in SUBSET (1..(stop - 1)) :
               LET touched == IF Has(agentState, "selectedPRs")
                              THEN [agentState EXCEPT !.selectedPRs = Detailed(list, ok)]
                              ELSE agentState
               IN  agentState' =
                       Merge(touched,
                             IF stop <= Len(list)
                             THEN Failure("Failed to analyze PRs")
                             ELSE [prAnalysis |-> AnalysisOf(list, ok, Len(list)),
                                   currentStep |-> "analysis_complete"])
    /\ FlowFrame

\* _generateReport
GenerateReport ==
    /\ node = "generate_report"
    /\ node' = "generate_coaching"
    /\ \/ \E activity \in (IF Has(agentState, "overviewData") THEN FlowActivities
                                                              ELSE { Undefined }),
             today \in Dates :
              LET result == generateAnalysisResult(
                                FieldOr(agentState, "selectedPRs", << >>),
                                FieldOr(agentState, "prAnalysis", << >>),
                                [Config EXCEPT !.prSelection = prSelection],
                                activity, today)
              IN  agentState' =
                      Merge(agentState,
                            [finalReport |->
                                 [result EXCEPT
                                     !.findings = @ \o AIInsights.insights,
                                     !.recommendations = @ \o AIInsights.recommendations],
                             currentStep |-> "report_complete"])
       \/ agentState' = Merge(agentState, Failure("Failed to generate report"))
    /\ FlowFrame

\* _generateCoaching
GenerateCoaching ==
    /\ node = "generate_coaching"
    /\ node' = "save_results"
    /\ \/ /\ Has(agentState, "overviewData")
          /\ agentState' = Merge(agentState,
                                 [coachingReport |-> "coaching report",
                                  currentStep |-> "coaching_complete"])
       \/ agentState' = Merge(agentState, Failure("Failed to generate coaching advice"))
    /\ FlowFrame

\* the files _saveResults writes when no write fails: the coaching advice
\* only if there is a coaching report, nothing without a final report
FilesToSave(state) ==
    IF Has(state, "finalReport")
    THEN << "COMPREHENSIVE_ASSESSMENT.md" >>
         \o (IF Has(state, "coachingReport") THEN << "COACHING_ADVICE.md" >> ELSE << >>)
         \o << "analysis-data.json" >>
    ELSE << >>

\* _saveResults: mkdir or a write may fail, the files written before stay
SaveResults ==
    /\ node = "save_results"
    /\ node' = "__end__"
    /\ \E written \in 0..Len(FilesToSave(agentState)) :
           /\ reportFiles' = SubSeq(FilesToSave(agentState), 1, written)
           /\ agentState' =
                  Merge(agentState,
                        IF Has(agentState, "finalReport")
                           /\ written = Len(FilesToSave(agentState))
                        THEN [currentStep |-> "complete"]
                        ELSE Failure("Failed to save results"))
    /\ FlowRest

\* analyze, once graph.invoke has returned the final state
AnalyzeSettle ==
    /\ node = "__end__"
    /\ node' = IF Has(agentState, "error") THEN "rejected" ELSE "resolved"
    /\ UNCHANGED agentState
    /\ FlowFrame

NextFlow ==
    \/ GenerateOverview
    \/ SelectPRsNode
    \/ AnalyzePRs
    \/ GenerateReport
    \/ GenerateCoaching
    \/ SaveResults
    \/ AnalyzeSettle

\* every await of the workflow returns or throws
SpecFlow == InitFlow /\ [][NextFlow]_vars /\ WF_vars(NextFlow)

(***************************************************************************)
(* SpecLoop: analyzePerformanceIssues over diffs with one for loop         *)
(***************************************************************************)
\* the added lines after the header of the loop
LoopLines ==
    {"  await prisma.post.findMany();",
     "  const p = posts.findAll(u);",
     "  if (u.ok) { log(u); }",
     "  x = y;",
     "}"}

MaxLoopLines == 3

LoopTexts ==
    { Join(FileDiff("a.ts", << "for (const u of users) {" >> \o ls), "\n") :
        ls \in SeqsUpTo(LoopLines, MaxLoopLines) }

InitLoop ==
    /\ pc = "start"
    /\ diffContent \in LoopTexts
    /\ language = "" /\ files = << >> /\ metrics = NoResult
    /\ issues = [c \in Counters |-> 0]
    /\ insights = NoResult
    /\ IdleAgg /\ IdleBatch /\ IdleFlow /\ IdleMore

\* a call of analyzePerformanceIssues(diffContent, filenames); of the
\* sixteen detectors, each a count over the added lines that depends on no
\* other, the record keeps the count of detectNPlusOneQueries
AnalyzePerformanceIssues ==
    /\ pc = "start"
    /\ pc' = "analyzePerformanceIssues"
    /\ issues' = [nPlusOneQueries |-> detectNPlusOneQueries(AddedLines(diffContent))]
    /\ UNCHANGED <<insights, cqVars, aggVars, batchVars, flowVars, moreVars>>

NextLoop == AnalyzePerformanceIssues

SpecLoop == InitLoop /\ [][NextLoop]_vars

(***************************************************************************)
(* SpecSolid: analyzeCodeQuality over many small files                     *)
(***************************************************************************)
\* the one added line of a small file: with and without a `new X`
SmallLines == {"x = new Y()", "x = 1"}

\* the small files of a diff
MaxSmallFiles == 34

\* a file of more than ClassComplexityLimit non-blank added lines
LargeFile == FileDiff("big.ts", [k \in 1..(ClassComplexityLimit + 1) |-> "x;"])

\* the text t written n times
RECURSIVE Repeat(_, _)
Repeat(t, n) ==
    IF n = 0 THEN ""
    ELSE IF n = 1 THEN t
    ELSE LetIn(Repeat(t, n \div 2), LAMBDA half :
             half \o half \o (IF n % 2 = 1 THEN t ELSE ""))

\* the diff of the sections first and n sections of one added line
SolidText(first, line, n) ==
    LetIn(Join(FileDiff("a.ts", << line >>), "\n"), LAMBDA small :
        IF first = << >>
        THEN (IF n = 0 THEN "" ELSE small \o Repeat("\n" \o small, n - 1))
        ELSE Join(first, "\n") \o Repeat("\n" \o small, n))

SolidTexts ==
    { SolidText(first, line, n) :
        first \in {<< >>, LargeFile}, line \in SmallLines, n \in 0..MaxSmallFiles }

InitSolid == InitCQ(SolidTexts, {""})

SpecSolid == InitSolid /\ [][NextCQ]_vars

(***************************************************************************)
(* SpecScore: generateCodeQualityAnalysis over metrics at the floors       *)
(***************************************************************************)
\* the code-quality metrics of a change whose SOLID and naming scores are 0
LowestQuality ==
    [QualitySample(200, 100) EXCEPT
        !.solidPrinciples.overall = Zero,
        !.namingConventions.overall = Zero]

\* PRMetrics without code-quality metrics, and with cyclomatic averages and
\* duplication percentages under and far over what the sub-scores take off
ScoreSamples ==
    { PlainMetrics(10, 0, 1, 100) }
    \cup { PlainMetrics(10, 0, 1, 100) @@ [codeQualityMetrics |-> QualitySample(c, d)] :
             c \in {1, 15, 200}, d \in {0, 100} }
    \cup { PlainMetrics(10, 0, 1, 100) @@ [codeQualityMetrics |-> LowestQuality] }

InitScore ==
    /\ pc = "start"
    /\ prs = << >>
    /\ prMetrics \in { MappingOf(ms) : ms \in SeqsUpTo(ScoreSamples, MaxChanges) }
    /\ activityData = Undefined
    /\ analysis = NoResult
    /\ IdleCQ /\ IdlePerf /\ IdleBatch /\ IdleFlow /\ IdleMore

NextScore == GenerateCodeQualityAnalysis

SpecScore == InitScore /\ [][NextScore]_vars

(***************************************************************************)
(* SpecDocs: analyzeTypeScriptDocs over short TypeScript files             *)
(***************************************************************************)
\* the lines of the files: JSDoc blocks of one line and of several lines,
\* declarations by both forms of functionRegex, and lines of code
DocTextLines ==
    {"/** Adds. */",
     "/**",
     " */",
     "function add() {}",
     "export const sub = () => 1;",
     "x = 1;"}

MaxDocLines == 4

DocTexts == { Join(ls, "\n") : ls \in SeqsUpTo(DocTextLines, MaxDocLines) }

InitDocs ==
    /\ pc = "start"
    /\ docContent \in DocTexts
    /\ docAnalysis = NoResult
    /\ IdleCQ /\ IdleAgg /\ IdlePerf /\ IdleBatch /\ IdleFlow
    /\ reportFiles = << >> /\ IdleRetry

\* a call of analyzeTypeScriptDocs(content, filePath)
AnalyzeTypeScriptDocs ==
    /\ pc = "start"
    /\ pc' = "analyzeTypeScriptDocs"
    /\ docAnalysis' = analyzeTypeScriptDocs(docContent, "test.ts")
    /\ UNCHANGED <<docContent, reportFiles, retryVars, cqVars, aggVars, perfVars, batchVars, flowVars>>

NextDocs == AnalyzeTypeScriptDocs

SpecDocs == InitDocs /\ [][NextDocs]_vars

(***************************************************************************)
(* SpecRetry: one call of retryWithBackoff(fn)                             *)
(***************************************************************************)
\* the errors fn can reject with: three the catch block retries, by the
\* message or by the code, and three it does not
NetworkErrors ==
    { [message |-> "connect ECONNREFUSED 127.0.0.1:443"],
      [message |-> "TypeError: fetch failed"],
      [code |-> "ECONNREFUSED"] }

OtherErrors ==
    { [message |-> "HTTP 401: Bad credentials"],
      [message |-> "gh: command not found", code |-> "ENOENT"],
      [code |-> "ETIMEDOUT"] }

\* the values fn can resolve with
FnValues == { "[]", "[{\"number\":1}]" }

\* how an invocation of fn settles
Resolved(value) == [settled |-> "resolved", value |-> value]

Rejected(error) == [settled |-> "rejected", error |-> error]

FnOutcomes ==
    { Resolved(v) : v \in FnValues } \cup { Rejected(e) : e \in NetworkErrors \cup OtherErrors }

InitRetry ==
    /\ pc = "start"
    /\ retryPhase = "loop"
    /\ attempt = 0
    /\ retryDelay = InitialDelay
    /\ outcomes = << >> /\ waits = << >>
    /\ retryResult = NoResult
    /\ reportFiles = << >>
    /\ IdleCQ /\ IdleAgg /\ IdlePerf /\ IdleBatch /\ IdleFlow /\ IdleDoc

RetryFrame ==
    UNCHANGED <<pc, reportFiles, docVars, cqVars, aggVars, perfVars, batchVars, flowVars>>

\* the head of the loop: fn is invoked, or the loop is left
RetryInvoke ==
    /\ retryPhase = "loop"
    /\ IF attempt < maxRetries
       THEN retryPhase' = "awaiting" /\ retryResult' = retryResult
       ELSE /\ retryPhase' = "thrown"
            /\ retryResult' = [message |-> "Should not reach here"]
    /\ UNCHANGED <<attempt, retryDelay, outcomes, waits>>
    /\ RetryFrame

\* fn settles: its value is returned, or the catch block runs
RetrySettle ==
    /\ retryPhase = "awaiting"
    /\ \E outcome \in FnOutcomes :
           /\ outcomes' = Append(outcomes, outcome)
           /\ IF outcome.settled = "resolved"
              THEN retryPhase' = "returned" /\ retryResult' = outcome.value
              ELSE IF Caught(outcome.error, attempt) = "throw"
                   THEN retryPhase' = "thrown" /\ retryResult' = outcome.error
                   ELSE retryPhase' = "sleeping" /\ retryResult' = retryResult
    /\ UNCHANGED <<attempt, retryDelay, waits>>
    /\ RetryFrame

\* the timer of setTimeout(resolve, delay) fires; then delay *= 2 and i++
RetryWake ==
    /\ retryPhase = "sleeping"
    /\ waits' = Append(waits, retryDelay)
    /\ retryDelay' = retryDelay * 2
    /\ attempt' = attempt + 1
    /\ retryPhase' = "loop"
    /\ UNCHANGED <<outcomes, retryResult>>
    /\ RetryFrame

NextRetry == RetryInvoke \/ RetrySettle \/ RetryWake

\* fn settles and the timer fires
SpecRetry == InitRetry /\ [][NextRetry]_vars /\ WF_vars(NextRetry)

(***************************************************************************)
(* SpecRatio: generateAnalysisResult over changes of unequal size          *)
(***************************************************************************)
\* PRMetrics whose shares of test additions lie on both sides of a fifth,
\* over totals of different size
RatioSamples ==
    { PlainMetrics(50, 0, 0, 100),
      PlainMetrics(30, 0, 0, 100),
      PlainMetrics(0, 0, 0, 200),
      PlainMetrics(0, 0, 0, 10) }

RatioMappings == { MappingOf(ms) : ms \in SeqsUpTo(RatioSamples, MaxChanges) }

InitRatio ==
    /\ pc = "start"
    /\ prs \in SeqsUpTo(PRSamples, MaxPRs)
    /\ prMetrics \in RatioMappings
    /\ activityData = Undefined
    /\ analysis = NoResult
    /\ IdleCQ /\ IdlePerf /\ IdleBatch /\ IdleFlow /\ IdleMore

NextRatio == GenerateAnalysisResult

SpecRatio == InitRatio /\ [][NextRatio]_vars

(***************************************************************************)
(* Properties of analyzeCodeQuality                                        *)
(***************************************************************************)
\* the lines of a text
LinesOf(text) == Split(text, "\n")

\* a file-header line: diff --git a/<path> b/<path>, both paths non-empty
IsFileHeader(line) ==
    /\ StartsWith(line, "diff --git a/")
    /\ \E g \in 15..(Len(line) - 3) : At(line, g, " b/")

NoFileHeader(text) ==
    LetIn(LinesOf(text), LAMBDA ls : \A k \in 1..Len(ls) : ~IsFileHeader(ls[k]))

ZeroComplexity(score) ==
    /\ score.average = Zero
    /\ score.maximum = 0
    /\ score.violationsCount = 0
    /\ score.files = << >>

ZeroDuplication(score) ==
    /\ score.percentage = Zero
    /\ score.linesCount = 0
    /\ score.blocksCount = 0
    /\ score.duplicatedBlocks = << >>

\* C1: for a diff text without a file-header line, the empty text included,
\* analyzeCodeQuality returns: average 0, maximum 0, no violation and no file
\* for each of the four complexity metrics; a zero duplication score without
\* duplicated blocks; no code smell, no anti-pattern and no naming or SOLID
\* violation.
C1_NoHeaderGivesZeroMetrics ==
    (pc = "done" /\ NoFileHeader(diffContent)) =>
        /\ ZeroComplexity(metrics.cyclomaticComplexity)
        /\ ZeroComplexity(metrics.cognitiveComplexity)
        /\ ZeroComplexity(metrics.nestingDepth)
        /\ ZeroComplexity(metrics.functionLength)
        /\ ZeroDuplication(metrics.codeDuplication)
        /\ metrics.codeSmells = << >>
        /\ metrics.antiPatterns = << >>
        /\ metrics.namingConventions.violations = << >>
        /\ metrics.solidPrinciples.violations = << >>

\* a text without a file header that has a line starting with "diff --git"
\* and an added function has been analysed
C1_Witness ==
    /\ pc = "done"
    /\ NoFileHeader(diffContent)
    /\ StartsWith(diffContent, "diff --git")
    /\ Includes(diffContent, "\n+f() {}")

\* the occurrences of the whole word `if`: the positions p at which "if" is
\* written with no word character before or after it
IfWords(body) ==
    Cardinality({ p \in 1..Len(body) :
                    /\ At(body, p, "if")
                    /\ ~IsWordAt(body, p - 1)
                    /\ ~IsWordAt(body, p + 2) })

\* P(entry, function) for every function of every file, entry being what the
\* complexity score `score` records for it
ForEachFunction(score, P(_, _)) ==
    \A e \in 1..Len(score.files) : \A i \in 1..Len(files) :
        files[i].path = score.files[e].path =>
            LetIn(extractFunctions(files[i].additions, files[i].path), LAMBDA functions :
                \A k \in 1..Len(functions) : P(score.files[e].functions[k], functions[k]))

\* C3: the cyclomatic score of every extracted function whose body has k
\* whole-word occurrences of `if` is at least k + 1.
C3_CyclomaticAtLeastIfsPlusOne ==
    pc = "done" =>
        ForEachFunction(metrics.cyclomaticComplexity,
                        LAMBDA entry, function : entry.score >= IfWords(function.body) + 1)

\* a function with three `if` and the identifier `notif` in its body has
\* been scored
C3_Witness ==
    /\ pc = "done"
    /\ ~ForEachFunction(metrics.cyclomaticComplexity,
                        LAMBDA entry, function :
                            ~(IfWords(function.body) = 3 /\ Includes(function.body, "notif")))

\* the open-minus-close brace count after the first p characters of a body
DepthAfter(body, p) ==
    Cardinality({ q \in 1..p : Ch(body, q) = "{" })
    - Cardinality({ q \in 1..p : Ch(body, q) = "}" })

\* the braces of a body are balanced
Balanced(body) ==
    /\ \A p \in 0..Len(body) : DepthAfter(body, p) >= 0
    /\ DepthAfter(body, Len(body)) = 0

\* the true maximum nesting depth of a body
TrueDepth(body) == SetMax({ DepthAfter(body, p) : p \in 0..Len(body) })

\* C4: the nesting-depth score of every function body whose braces are
\* balanced equals the body's true maximum nesting depth.
C4_NestingScoreIsTrueDepth ==
    pc = "done" =>
        ForEachFunction(metrics.nestingDepth,
                        LAMBDA entry, function :
                            Balanced(function.body) =>
                                entry.score = TrueDepth(function.body))

\* the non-blank added lines of a file
NonBlankAdditions(file) ==
    SelectSeq(file.additions,
              LAMBDA l : \E p \in 1..Len(l) : Ch(l, p) \notin SpaceChars)

\* where the block b of lines starts in the sequence ls of lines
BlockStarts(ls, b) == { w \in 1..(Len(ls) - Len(b) + 1) : SubSeq(ls, w, w + Len(b) - 1) = b }

\* the blocks of minBlockSize non-blank added lines of a file
BlocksOf(file) ==
    LetIn(NonBlankAdditions(file), LAMBDA ls :
        { SubSeq(ls, w, w + minBlockSize - 1) : w \in 1..(Len(ls) - minBlockSize + 1) })

\* the blocks the two files of the diff share
SharedBlocks == BlocksOf(files[1]) \cap BlocksOf(files[2])

ExactlyOnce(seq, x) == Cardinality({ k \in 1..Len(seq) : seq[k] = x }) = 1

TwoFilesShareABlock ==
    /\ pc = "done"
    /\ Len(files) = 2
    /\ files[1].path # files[2].path
    /\ SharedBlocks # {}

\* the duplicated block entries that list both files exactly once and whose
\* occurrences satisfy Count
EntriesOfBoth(Count(_)) ==
    { k \in 1..Len(metrics.codeDuplication.duplicatedBlocks) :
        LetIn(metrics.codeDuplication.duplicatedBlocks[k], LAMBDA entry :
            /\ Count(entry.occurrences)
            /\ ExactlyOnce(entry.files, files[1].path)
            /\ ExactlyOnce(entry.files, files[2].path)) }

\* C5 as stated: when the added lines of the two files of a diff share a
\* block of 5 non-blank lines, some duplicated block has occurrences = 2 and
\* lists both paths exactly once.
C5_SharedBlockOccursTwice ==
    TwoFilesShareABlock => EntriesOfBoth(LAMBDA n : n = 2) # {}

\* C5, amended: when the added lines of the two files of a diff share a block
\* of 5 non-blank lines, then for every shared block some duplicated block
\* lists both paths exactly once and has as many occurrences as the block has
\* starting positions in the two files together (2 or more).
C5_SharedBlockCountsEveryStart ==
    TwoFilesShareABlock =>
        \A b \in SharedBlocks :
            EntriesOfBoth(LAMBDA n :
                /\ n >= 2
                /\ n = Cardinality(BlockStarts(NonBlankAdditions(files[1]), b))
                       + Cardinality(BlockStarts(NonBlankAdditions(files[2]), b))) # {}

\* two files share a block that starts at two places of the second file
C5_Witness ==
    /\ TwoFilesShareABlock
    /\ EntriesOfBoth(LAMBDA n : n = 3) # {}

\* a deleted line, an unchanged context line, or a hunk / old-file / new-file
\* metadata line
IsDeleted(line) == StartsWith(line, "-")
IsContext(line) == line = "" \/ StartsWith(line, " ")
IsMetadata(line) ==
    StartsWith(line, "@@") \/ StartsWith(line, "---") \/ StartsWith(line, "+++")

\* a diff text without its deleted, context and metadata lines: two texts
\* that differ only in such lines have the same visible text
VisibleText(text) ==
    Join(SelectSeq(LinesOf(text),
                   LAMBDA l : ~(IsMetadata(l) \/ IsDeleted(l) \/ IsContext(l))), "\n")

\* C10: the metrics of a diff text are those of the text without its deleted,
\* context and metadata lines, so two texts with the same file headers and
\* added lines have identical metrics.
C10_OnlyHeadersAndAddedLinesCount ==
    pc = "done" => metrics = analyzeCodeQuality(VisibleText(diffContent), language)

\* a text with a deleted, a context or a metadata line after the header of a
\* file with an added function has been analysed
C10_Witness ==
    /\ pc = "done"
    /\ VisibleText(diffContent) # diffContent
    /\ StartsWith(diffContent, "diff --git a/a.ts b/a.ts\n")
    /\ metrics.cyclomaticComplexity.files # << >>

(***************************************************************************)
(* Properties of the aggregation layer, the performance insights and the   *)
(* batch loops                                                             *)
(***************************************************************************)
\* C6: generateAnalysisResult over no change and no metrics, with or without
\* an activity summary, returns mergeRate = 0, averagePRSize = 0 and
\* testToCodeRatio = 0 (numbers, not the NaN a division of 0 by 0 gives).
C6_NoChangeGivesZeroRates ==
    (pc = "generateAnalysisResult" /\ prs = << >> /\ prMetrics = << >>) =>
        /\ analysis.metrics.mergeRate = Zero
        /\ analysis.metrics.averagePRSize = Zero
        /\ analysis.metrics.testToCodeRatio = Zero

\* generateAnalysisResult has returned for no change, no metrics and an
\* activity summary that yields a finding
C6_Witness ==
    /\ pc = "generateAnalysisResult"
    /\ prs = << >>
    /\ prMetrics = << >>
    /\ Has(activityData, "summary")
    /\ \E k \in 1..Len(analysis.findings) :
           analysis.findings[k] = "Low activity in the last 30 days"

NoInsights == [findings |-> << >>, recommendations |-> << >>, risks |-> << >>]

\* C7: generatePerformanceInsights of a record whose sixteen counters are 0
\* returns no finding, no recommendation and no risk.
C7_ZeroIssuesGiveNoInsights ==
    (pc = "generatePerformanceInsights" /\ \A c \in Counters : issues[c] = 0) =>
        insights = NoInsights

\* the insights of the all-zero record have been generated
C7_Witness ==
    /\ pc = "generatePerformanceInsights"
    /\ DOMAIN issues = Counters
    /\ Cardinality(Counters) = 16
    /\ \A c \in Counters : issues[c] = 0

ReduceCyclomatic == "Reduce cyclomatic complexity by breaking down complex functions"

Recommends(text) ==
    \E k \in 1..Len(analysis.complexityAnalysis.recommendations) :
        analysis.complexityAnalysis.recommendations[k] = text

\* the cyclomaticComplexity.average of the changes that carry code-quality
\* metrics
CyclomaticAverages ==
    LetIn(SelectSeq(prMetrics, LAMBDA e : Has(e.value, "codeQualityMetrics")),
          LAMBDA with :
              [k \in 1..Len(with) |->
                  with[k].value.codeQualityMetrics.cyclomaticComplexity.average])

\* C8 as stated: when some change carries code-quality metrics whose
\* cyclomaticComplexity.average exceeds 10, generateCodeQualityAnalysis
\* recommends reducing the cyclomatic complexity.
C8_AnyChangeOverTenRecommends ==
    (/\ pc = "generateCodeQualityAnalysis"
     /\ \E k \in 1..Len(CyclomaticAverages) :
            RatLess(Int2Rat(10), CyclomaticAverages[k]))
        => Recommends(ReduceCyclomatic)

\* C8, amended: generateCodeQualityAnalysis recommends reducing the
\* cyclomatic complexity when (and only when) the mean of
\* cyclomaticComplexity.average over the changes that carry code-quality
\* metrics exceeds 10.
C8_MeanOverTenRecommends ==
    pc = "generateCodeQualityAnalysis" =>
        (Recommends(ReduceCyclomatic)
            <=> /\ Len(CyclomaticAverages) > 0
                /\ RatLess(Int2Rat(10 * Len(CyclomaticAverages)),
                           RatSum(CyclomaticAverages)))

\* the recommendation is made for two changes of which one is under 10
C8_Witness ==
    /\ pc = "generateCodeQualityAnalysis"
    /\ Recommends(ReduceCyclomatic)
    /\ Len(CyclomaticAverages) = 2
    /\ \E k \in 1..2 : RatLess(CyclomaticAverages[k], Int2Rat(10))

Warned(text) == \E k \in 1..Len(warnings) : warnings[k] = text

\* the first n entries of the mapping given to enrichWithCodeQuality have
\* their entry in enrichedMetrics: the original metrics when the enrichment
\* failed, the original metrics with code-quality metrics otherwise
EnrichedUpTo(n) ==
    /\ Len(enrichedMetrics) = n
    /\ \A k \in 1..n :
           /\ enrichedMetrics[k].key = prMetrics[k].key
           /\ IF Warned(EnrichWarning(prMetrics[k].key))
              THEN enrichedMetrics[k].value = prMetrics[k].value
              ELSE /\ DOMAIN enrichedMetrics[k].value
                          = DOMAIN prMetrics[k].value \cup {"codeQualityMetrics"}
                   /\ \A f \in DOMAIN prMetrics[k].value \ {"codeQualityMetrics"} :
                          enrichedMetrics[k].value[f] = prMetrics[k].value[f]
                   /\ DOMAIN enrichedMetrics[k].value.codeQualityMetrics
                          = DOMAIN OneFunctionQuality

\* the first n selected PRs are recorded in prAnalysis, but for those whose
\* fetch or analysis failed
AnalyzedUpTo(n) ==
    /\ \A i \in 1..n :
           Warned(AnalyzeWarning(selectedPRs[i].number))
               <=> ~\E k \in 1..Len(prAnalysis) :
                       /\ prAnalysis[k].key = KeyOf(selectedPRs[i].repository.nameWithOwner,
                                                    selectedPRs[i].number)
                       /\ prAnalysis[k].value \in PlainSamples
    /\ \A k \in 1..Len(prAnalysis) :
           \E i \in 1..n :
               prAnalysis[k].key = KeyOf(selectedPRs[i].repository.nameWithOwner,
                                         selectedPRs[i].number)

\* C9: a failure for one change does not end the batch.  While
\* enrichWithCodeQuality runs, every entry processed so far is in
\* enrichedMetrics (the original metrics on a failure, enriched ones
\* otherwise) and it returns only after the last entry; while _analyzePRs
\* runs, every PR processed so far is recorded unless its fetch failed, and
\* it completes only after the last PR.
C9_FailuresDoNotAbortTheBatch ==
    /\ pc = "enrichWithCodeQuality" => EnrichedUpTo(cursor)
    /\ pc = "enriched" => EnrichedUpTo(Len(prMetrics))
    /\ pc = "_analyzePRs" => AnalyzedUpTo(cursor)
    /\ pc = "analysis_complete" => AnalyzedUpTo(Len(selectedPRs))

\* both loops have ended after a failure for their first entry and a success
\* for their second
C9_Witness ==
    /\ pc = "analysis_complete"
    /\ Len(prMetrics) = 2
    /\ Len(selectedPRs) = 2
    /\ warnings = << EnrichWarning(prMetrics[1].key),
                     AnalyzeWarning(selectedPRs[1].number) >>
    /\ Len(enrichedMetrics) = 2
    /\ ~Has(enrichedMetrics[1].value, "codeQualityMetrics")
    /\ Has(enrichedMetrics[2].value, "codeQualityMetrics")
    /\ Len(prAnalysis) = 1

(***************************************************************************)
(* Properties of the complexity results                                    *)
(***************************************************************************)
\* the per-function entries listed across the files breakdown of a result
EntriesOf(score) == Flatten([j \in 1..Len(score.files) |-> score.files[j].functions])

\* violationsCount counts the listed entries whose score is above threshold
CountsEntriesAbove(score, threshold) ==
    LetIn(EntriesOf(score), LAMBDA entries :
        /\ score.violationsCount
               = Cardinality({ k \in 1..Len(entries) : entries[k].score > threshold })
        /\ 0 <= score.violationsCount
        /\ score.violationsCount <= Len(entries))

\* C11: in every result of analyzeCodeQuality and for each of the four
\* complexity metrics, violationsCount is the number of per-function entries
\* of the files breakdown whose score is strictly above the metric's threshold
\* (cyclomatic 10, cognitive 15, nesting 4, length 50), hence between 0 and
\* the number of entries.
C11_ViolationsCountEntriesAboveThreshold ==
    pc = "done" =>
        /\ CountsEntriesAbove(metrics.cyclomaticComplexity, 10)
        /\ CountsEntriesAbove(metrics.cognitiveComplexity, 15)
        /\ CountsEntriesAbove(metrics.nestingDepth, 4)
        /\ CountsEntriesAbove(metrics.functionLength, 50)

\* a diff of two functions has been analysed, of which one is above the four
\* thresholds and the other under them
C11_Witness ==
    /\ pc = "done"
    /\ \A m \in {"cyclomaticComplexity", "cognitiveComplexity",
                 "nestingDepth", "functionLength"} :
           /\ metrics[m].violationsCount = 1
           /\ Len(EntriesOf(metrics[m])) = 2

(***************************************************************************)
(* The order of the files of a diff                                        *)
(***************************************************************************)
\* the sequences that list the elements of q in another order
Reorderings(q) ==
    { [k \in 1..Len(q) |-> q[p[k]]] :
        p \in { f \in [1..Len(q) -> 1..Len(q)] : \A i, j \in 1..Len(q) : f[i] = f[j] => i = j } }

\* the entries of a list with how often each is listed
Entries(list) ==
    { << list[k], Cardinality({ j \in 1..Len(list) : list[j] = list[k] }) >> :
        k \in 1..Len(list) }

SameComplexity(a, b) ==
    /\ a.average = b.average
    /\ a.maximum = b.maximum
    /\ a.violationsCount = b.violationsCount
    /\ Entries(a.files) = Entries(b.files)

\* a duplicated block with its files taken as a set
BlockOf(block) ==
    [lines |-> block.lines, occurrences |-> block.occurrences,
     files |-> { block.files[k] : k \in 1..Len(block.files) }]

SameDuplication(a, b) ==
    /\ a.percentage = b.percentage
    /\ a.linesCount = b.linesCount
    /\ a.blocksCount = b.blocksCount
    /\ Entries([k \in 1..Len(a.duplicatedBlocks) |-> BlockOf(a.duplicatedBlocks[k])])
           = Entries([k \in 1..Len(b.duplicatedBlocks) |-> BlockOf(b.duplicatedBlocks[k])])

\* every score and count and the findings of two results are the same
SameScores(a, b) ==
    /\ SameComplexity(a.cyclomaticComplexity, b.cyclomaticComplexity)
    /\ SameComplexity(a.cognitiveComplexity, b.cognitiveComplexity)
    /\ SameComplexity(a.nestingDepth, b.nestingDepth)
    /\ SameComplexity(a.functionLength, b.functionLength)
    /\ SameDuplication(a.codeDuplication, b.codeDuplication)
    /\ a.namingConventions.overall = b.namingConventions.overall
    /\ a.namingConventions.categories = b.namingConventions.categories
    /\ Entries(a.namingConventions.violations) = Entries(b.namingConventions.violations)
    /\ a.solidPrinciples.overall = b.solidPrinciples.overall
    /\ a.solidPrinciples.principles = b.solidPrinciples.principles
    /\ Entries(a.solidPrinciples.violations) = Entries(b.solidPrinciples.violations)
    /\ Entries(a.codeSmells) = Entries(b.codeSmells)
    /\ Entries(a.antiPatterns) = Entries(b.antiPatterns)
    /\ a.languageIdioms.overall = b.languageIdioms.overall
    /\ Entries(a.languageIdioms.idiomUsage) = Entries(b.languageIdioms.idiomUsage)
    /\ Entries(a.designPatterns) = Entries(b.designPatterns)

\* the results of the diffs that list the file sections of the analysed diff
\* in another order
Reordered ==
    { analyzeCodeQuality(SectionsText(p), language) :
        p \in UNION { Reorderings(q) : q \in { s \in SectionSeqs :
                                                  SectionsText(s) = diffContent } } }

\* C12: the result for a diff and the result for the same file sections in
\* another order have the same scores and counts, the same findings and the
\* same detected language in languageIdioms.
C12_FileOrderDoesNotMatter ==
    pc = "done" =>
        \A other \in Reordered :
            /\ SameScores(metrics, other)
            /\ metrics.languageIdioms.language = other.languageIdioms.language

(***************************************************************************)
(* Properties of selectPRs                                                 *)
(***************************************************************************)
\* how many times a pull request is listed
TimesIn(list, pr) == Cardinality({ k \in 1..Len(list) : list[k] = pr })

\* selection holds the n most recent of the pull requests of list, the most
\* recent first
MostRecentFirst(selection, list, n) ==
    /\ Len(selection) = n
    /\ \A k \in 1..Len(selection) : TimesIn(selection, selection[k]) <= TimesIn(list, selection[k])
    /\ \A k, l \in 1..Len(selection) :
           k < l => DateTime(selection[k].createdAt) >= DateTime(selection[l].createdAt)
    /\ \A i \in 1..Len(list) :
           TimesIn(selection, list[i]) < TimesIn(list, list[i]) =>
               \A k \in 1..Len(selection) :
                   DateTime(selection[k].createdAt) >= DateTime(list[i].createdAt)

\* C13: selectPRs(prs, "last N") returns min(N, |prs|) pull requests, those
\* created most recently, the most recent first, for every N >= 0.
C13_LastNSelectsTheNMostRecent ==
    \A n \in 0..MaxSelectCount :
        (pc = "selectPRs" /\ prSelection = "last " \o NumberText(n)) =>
            MostRecentFirst(selectedPRs, prs, Min(n, Len(prs)))

(***************************************************************************)
(* Properties of the trend findings                                        *)
(***************************************************************************)
\* the result lists a trend finding of the given kind
HasTrend(kind) ==
    \E k \in 1..Len(analysis.findings) :
        /\ Len(analysis.findings[k]) = 3
        /\ analysis.findings[k][1] = kind

\* the value, in tenths of a point, of a merge rate of the activity report
Tenths(text) == (CHOOSE r \in RateSamples : r[1] = text)[2]

\* both periods of the summary passed in give their merge rate
BothRatesGiven ==
    /\ Has(activityData, "summary")
    /\ Has(activityData.summary, "last30Days")
    /\ Has(activityData.summary, "last90Days")

\* the 30-day merge rate minus the 90-day one, in tenths of a point
Swing ==
    Tenths(activityData.summary.last30Days.mergeRate)
    - Tenths(activityData.summary.last90Days.mergeRate)

\* C14: generateAnalysisResult given an activity summary lists a "Merge rate
\* declining" finding exactly when the 30-day merge rate is more than 10
\* points under the 90-day one, a "Merge rate improving" finding exactly when
\* it is more than 10 points over it, never both and none when the rates
\* differ by 10 points or less; given no summary it lists neither.
C14_TrendFindingFollowsTheSwing ==
    pc = "generateAnalysisResult" =>
        /\ BothRatesGiven =>
               /\ HasTrend("Merge rate declining") <=> Swing < -100
               /\ HasTrend("Merge rate improving") <=> Swing > 100
        /\ ~(HasTrend("Merge rate declining") /\ HasTrend("Merge rate improving"))
        /\ ~Has(activityData, "summary") =>
               ~HasTrend("Merge rate declining") /\ ~HasTrend("Merge rate improving")

\* a result has been generated for rates that differ by 10 points exactly
C14_Witness ==
    /\ pc = "generateAnalysisResult"
    /\ BothRatesGiven
    /\ Swing = -100
    /\ ~HasTrend("Merge rate declining")

(***************************************************************************)
(* Properties of the workflow                                              *)
(***************************************************************************)
\* the node that ran last failed
NodeFailed == agentState.currentStep = "error"

\* C15: when a node of the workflow fails, analyze eventually rejects: the
\* error a node records is kept by every later node, and analyze throws on
\* the final state that carries it.
C15_NodeFailureRejects ==
    /\ [][Has(agentState, "error") => Has(agentState', "error")]_vars
    /\ NodeFailed ~> (node = "rejected")

\* analyze has rejected although the last node succeeded
C15_Witness ==
    /\ node = "rejected"
    /\ agentState.currentStep = "complete"
    /\ Has(agentState, "error")

(***************************************************************************)
(* Properties of parseDiffFiles                                            *)
(***************************************************************************)
\* the number of lines of the text that start a file section
HeaderLineCount(text) ==
    LetIn(Split(text, "\n"), LAMBDA diffLines :
        Cardinality({ k \in 1..Len(diffLines) : StartsWith(diffLines[k], "diff --git") }))

\* the file objects pushed to the result for the text, by their index in
\* the order of creation
PushedObjects(text) ==
    LetIn(Split(text, "\n"), LAMBDA diffLines :
        PushCurrent(ParseLines(ParseStart, diffLines, 1)))

\* C16: parseDiffFiles emits each file record exactly once: it returns as
\* many files as the diff has lines starting with "diff --git", and no file
\* object is in the result twice, also when such a line names no paths.
C16_EachFileEmittedOnce ==
    pc = "done" =>
        /\ Len(files) = HeaderLineCount(diffContent)
        /\ LetIn(PushedObjects(diffContent), LAMBDA pushed :
               \A i, j \in 1..Len(pushed) : pushed[i] = pushed[j] => i = j)

(***************************************************************************)
(* Properties of extractFunctions                                          *)
(***************************************************************************)
\* the indexes of the lines that match the header pattern of the language
HeaderIndexes(lang, lines) ==
    { i \in 1..Len(lines) :
        ReTest(LAMBDA t, P : getFunctionRegex(lang, t, P), lines[i]) }

\* the j-th smallest element of the set H of numbers
Nth(H, j) == CHOOSE h \in H : Cardinality({ x \in H : x <= h }) = j

\* the lines first to last of lines, as one text
LinesText(lines, first, last) == Join(SubSeq(lines, first, last), "\n")

\* fs holds one function per header line of lines, in line order, each body
\* a run of lines from its header that ends before the next header
OneFunctionPerHeader(fs, lang, lines) ==
    LetIn(HeaderIndexes(lang, lines), LAMBDA H :
        /\ Len(fs) = Cardinality(H)
        /\ \A j \in 1..Len(fs) :
               /\ fs[j].line = Nth(H, j)
               /\ \E last \in fs[j].line..Len(lines) :
                      /\ fs[j].body = LinesText(lines, fs[j].line, last)
                      /\ j < Len(fs) => last < Nth(H, j + 1))

\* C17: extractFunctions returns one function per added line that matches
\* the header pattern of the file's language, in line order, its line the
\* 1-based index of the header; the bodies are disjoint runs of consecutive
\* added lines that start at their header, and a function open at the end
\* of the lines is returned too.
C17_OneFunctionPerHeaderLine ==
    pc = "done" =>
        \A k \in 1..Len(files) :
            OneFunctionPerHeader(extractFunctions(files[k].additions, files[k].path),
                                 getLanguageFromPath(files[k].path),
                                 files[k].additions)

\* two functions are returned, the second one still open at the last line
C17_Witness ==
    /\ pc = "done"
    /\ Len(files) = 1
    /\ Len(files[1].additions) = 3
    /\ LetIn(extractFunctions(files[1].additions, files[1].path), LAMBDA fs :
           /\ Len(fs) = 2
           /\ fs[2].line = 2
           /\ fs[2].body = LinesText(files[1].additions, 2, 3)
           /\ BraceDelta(fs[2].body) > 0)

\* the brace counter of a function after the first m lines of its body
CounterAfter(body, m) == BraceDelta(LinesText(Split(body, "\n"), 1, m))

\* C18: a function of extractFunctions closes as soon as its brace counter
\* is zero or below: once the counter is <= 0 after a line of the function,
\* its header line included, no later line is appended to its body.
C18_ClosedFunctionTakesNoLine ==
    pc = "done" =>
        \A k \in 1..Len(files) :
            LetIn(extractFunctions(files[k].additions, files[k].path), LAMBDA fs :
                \A j \in 1..Len(fs) :
                    \A m \in 1..(Len(Split(fs[j].body, "\n")) - 1) :
                        CounterAfter(fs[j].body, m) > 0)

(***************************************************************************)
(* Properties of the per-function scores                                   *)
(***************************************************************************)
\* how often the text is written in the body, counted left to right
Occurrences(body, text) == ReCount(LAMBDA t, P : ReLit(t, P, text), body)

\* the decision points of a body: the keywords as whole words, "else if",
\* every "&&" and "||", and every "?" followed by ":"
DecisionPoints(body) ==
    SumSeq([k \in 1..7 |-> ReCount(LAMBDA t, P : ReWord(t, P, DecisionWords[k]), body)])
    + ReCount(ReElseIf, body)
    + Occurrences(body, "&&") + Occurrences(body, "||")
    + ReCount(ReTernary, body)

\* C19: the cyclomatic score of a function is 1 plus the number of times
\* its body holds if, else if, while, for, do, switch, case, catch, "&&",
\* "||" (however the operators are spaced) and a ternary "?:".
C19_CyclomaticCountsEveryToken ==
    (pc = "done" /\ Len(files) = 1) =>
        LetIn(extractFunctions(files[1].additions, files[1].path), LAMBDA fs :
            \A j \in 1..Len(fs) :
                metrics.cyclomaticComplexity.files[1].functions[j].score
                    = 1 + DecisionPoints(fs[j].body))

\* the brace-depth counter of the cognitive walk after the first m lines
NestingAfter(lines, m) ==
    CognitiveLines([nestingLevel |-> 0, complexity |-> 0], SubSeq(lines, 1, m), 1).nestingLevel

\* no prefix of the first m lines closes more braces than it opens
OpenOrBalanced(lines, m) ==
    \A n \in 1..m : BraceDelta(LinesText(lines, 1, n)) >= 0

\* C20: the brace-depth counter of the cognitive walk goes up by one for
\* every "{" and down by one for every "}" of a line, not below 0: after
\* a prefix of lines with open or balanced braces it is the number of
\* braces not closed yet; and the cognitive score is never negative.
C20_NestingCountsUnclosedBraces ==
    (pc = "done" /\ Len(files) = 1) =>
        LetIn(extractFunctions(files[1].additions, files[1].path), LAMBDA fs :
            \A j \in 1..Len(fs) :
                /\ metrics.cognitiveComplexity.files[1].functions[j].score >= 0
                /\ LetIn(Split(fs[j].body, "\n"), LAMBDA lines :
                       \A m \in 1..Len(lines) :
                           OpenOrBalanced(lines, m) =>
                               NestingAfter(lines, m) = BraceDelta(LinesText(lines, 1, m))))

(***************************************************************************)
(* Properties of detectNPlusOneQueries                                     *)
(***************************************************************************)
\* the index of the line with the brace that closes the block opened at
\* line i, or one past the last line when the block stays open
ClosingLine(lines, i) ==
    LetIn({ j \in i..Len(lines) : BraceDelta(LinesText(lines, i, j)) <= 0 }, LAMBDA closed :
        IF closed = {} THEN Len(lines) + 1 ELSE SetMin(closed))

\* the number of query lines in the body of the loop opened at line i
QueriesInLoop(lines, i) ==
    Cardinality({ j \in (i + 1)..(ClosingLine(lines, i) - 1) : LooksLikeQuery(lines[j]) })

\* C21: for a "for (" loop of the added lines whose body holds m lines with
\* a query-like call before the brace that closes the loop,
\* analyzePerformanceIssues reports nPlusOneQueries >= m.
C21_QueriesInLoopAreCounted ==
    pc = "analyzePerformanceIssues" =>
        LetIn(AddedLines(diffContent), LAMBDA lines :
            \A i \in 1..Len(lines) :
                OpensLoop(lines[i]) => issues.nPlusOneQueries >= QueriesInLoop(lines, i))

(***************************************************************************)
(* Properties of checkSolidPrinciples                                      *)
(***************************************************************************)
\* the arithmetic mean of the five principle scores reported
PrinciplesMean ==
    LetIn(metrics.solidPrinciples.principles, LAMBDA p :
        RatDiv(Int2Rat(p.singleResponsibility + p.openClosed + p.liskovSubstitution
                       + p.interfaceSegregation + p.dependencyInversion),
               Int2Rat(5)))

\* how many of the files satisfy the test
FilesWith(Test(_)) == Cardinality({ k \in 1..Len(files) : Test(files[k]) })

\* each principle starts at 100 and loses its penalty per offending file
PenaltiesPerFile ==
    LetIn(metrics.solidPrinciples.principles, LAMBDA p :
        /\ p.singleResponsibility
             = 100 - 10 * FilesWith(LAMBDA f : Len(Filter(f.additions, NonBlank)) > 20)
        /\ p.dependencyInversion
             = 100 - 15 * FilesWith(LAMBDA f : \E k \in 1..Len(f.additions) :
                                                   ReTest(ReNew, f.additions[k]))
        /\ p.liskovSubstitution = 100
        /\ p.interfaceSegregation = 100)

\* C22: the overall SOLID score is the arithmetic mean of the five
\* principle scores reported, for any number of files, each principle
\* starting at 100 and losing 10 per file of more than 20 non-blank added
\* lines and 15 per file with a `new X` line.
C22_OverallIsTheMean ==
    pc = "done" => (metrics.solidPrinciples.overall = PrinciplesMean /\ PenaltiesPerFile)

(***************************************************************************)
(* Properties of the overall quality score                                 *)
(***************************************************************************)
\* at least one change of the mapping carries code-quality metrics
SomeQualityMetrics ==
    \E k \in 1..Len(prMetrics) : Has(prMetrics[k].value, "codeQualityMetrics")

\* C23: generateCodeQualityAnalysis returns an overallScore of 0 or more
\* for every metrics mapping in which a change carries code-quality
\* metrics: the weighted fold of the three sub-scores does not go under 0.
C23_OverallScoreIsNotNegative ==
    (pc = "generateCodeQualityAnalysis" /\ SomeQualityMetrics) => analysis.overallScore >= 0

\* a score is returned for changes whose complexity takes off more than 100
C23_Witness ==
    /\ pc = "generateCodeQualityAnalysis"
    /\ SomeQualityMetrics
    /\ \A k \in 1..Len(prMetrics) :
           /\ Has(prMetrics[k].value, "codeQualityMetrics")
           /\ prMetrics[k].value.codeQualityMetrics.cyclomaticComplexity.average = Int2Rat(200)
    /\ analysis.overallScore >= 0

(***************************************************************************)
(* Properties of the duplication score                                     *)
(***************************************************************************)
\* the added lines of all files, blank ones included
TotalAddedLines == SumSeq([k \in 1..Len(files) |-> Len(files[k].additions)])

\* the occurrences of all duplicated blocks together
TotalOccurrences ==
    SumSeq([k \in 1..Len(metrics.codeDuplication.duplicatedBlocks) |->
               metrics.codeDuplication.duplicatedBlocks[k].occurrences])

\* C24: in a DuplicationScore blocksCount is the number of entries of
\* duplicatedBlocks, every entry has occurrences >= 2 and lines = 5,
\* linesCount is 5 times the sum of the occurrences, and percentage is
\* linesCount / (added lines of all files, blank ones included) * 100, or
\* 0 without added lines; it is not clamped and can be over 100.
C24_DuplicationScoreAddsUp ==
    pc = "done" =>
        LetIn(metrics.codeDuplication, LAMBDA d :
            /\ d.blocksCount = Len(d.duplicatedBlocks)
            /\ \A k \in 1..Len(d.duplicatedBlocks) :
                   d.duplicatedBlocks[k].occurrences >= 2 /\ d.duplicatedBlocks[k].lines = 5
            /\ d.linesCount = 5 * TotalOccurrences
            /\ d.percentage = (IF TotalAddedLines = 0 THEN Zero
                               ELSE Rat(d.linesCount * 100, TotalAddedLines)))

\* a percentage over 100, with a blank added line in the total
C24_Witness ==
    /\ pc = "done"
    /\ RatLess(Int2Rat(100), metrics.codeDuplication.percentage)
    /\ \E k \in 1..Len(files) : \E j \in 1..Len(files[k].additions) :
           ~NonBlank(files[k].additions[j])

(***************************************************************************)
(* Properties of generatePerformanceInsights                               *)
(***************************************************************************)
\* C25: for every PerformanceIssues record with one of its sixteen
\* counters over 0, generatePerformanceInsights returns findings and
\* recommendations that are not empty.
C25_AnyIssueGivesInsights ==
    (pc = "generatePerformanceInsights" /\ \E c \in Counters : issues[c] > 0) =>
        (insights.findings # << >> /\ insights.recommendations # << >>)


(***************************************************************************)
(* C26                                                                     *)
(***************************************************************************)
\* the lines of the file analyzed
DocFileLines == Split(docContent, "\n")

\* the line where the JSDoc block opened at line j ends (0: it never ends)
DocBlockEnd(lines, j) ==
    LetIn({ e \in j..Len(lines) : EndsWith(Trim(lines[e]), "*/") },
          LAMBDA ends : IF ends = {} THEN 0 ELSE SetMin(ends))

\* the JSDoc blocks of the lines from line p on, each << first, last >>
RECURSIVE DocBlocksFrom(_, _)
DocBlocksFrom(lines, p) ==
    LetIn({ j \in p..Len(lines) : StartsWith(Trim(lines[j]), "/**") }, LAMBDA opens :
        IF opens = {} THEN {}
        ELSE LetIn(SetMin(opens), LAMBDA j :
             LetIn(DocBlockEnd(lines, j), LAMBDA e :
                 IF e = 0 THEN {<< j, Len(lines) + 1 >>}
                 ELSE {<< j, e >>} \cup DocBlocksFrom(lines, e + 1))))

\* a line of a comment or a blank line
DocNoCode(line) == Trim(line) = "" \/ StartsWith(Trim(line), "//")

\* the lines that declare a function
DocFunctionLines(lines) == { k \in 1..Len(lines) : ReTest(functionRegex, lines[k]) }

\* a JSDoc block ends directly before line k: no line of code lies between
DocDirectlyBefore(lines, k) ==
    \E b \in DocBlocksFrom(lines, 1) :
        /\ b[2] < k
        /\ \A i \in (b[2] + 1)..(k - 1) : DocNoCode(lines[i])

\* every JSDoc block is closed, no declaration of a function lies inside
\* one and no */ lies outside one
DocWellFormed(lines) ==
    /\ \A b \in DocBlocksFrom(lines, 1) : b[2] <= Len(lines)
    /\ \A k \in 1..Len(lines) :
           (ReTest(functionRegex, lines[k]) \/ EndsWith(Trim(lines[k]), "*/")) =>
               (\E b \in DocBlocksFrom(lines, 1) : b[1] <= k /\ k <= b[2])
                   = ~ReTest(functionRegex, lines[k])

\* the undocumented functions, in the order of the lines
DocUndocumented(lines) ==
    LetIn(Ascending({ k \in DocFunctionLines(lines) : ~DocDirectlyBefore(lines, k) }),
          LAMBDA ks : [n \in 1..Len(ks) |-> "function " \o functionName(lines[ks[n]])])

\* C26: analyzeTypeScriptDocs counts a function as documented only if a
\* JSDoc block, of one line or of several, ends directly before it with no
\* line of code in between; every other function is counted as undocumented
\* and listed in undocumentedSymbols, and documentedFunctions never exceeds
\* totalFunctions.
C26_DocumentedOnlyDirectlyAfterJSDoc ==
    (pc = "analyzeTypeScriptDocs" /\ DocWellFormed(DocFileLines)) =>
        /\ docAnalysis.metrics.documentedFunctions <= docAnalysis.metrics.totalFunctions
        /\ docAnalysis.metrics.documentedFunctions =
               Cardinality({ k \in DocFunctionLines(DocFileLines) :
                               DocDirectlyBefore(DocFileLines, k) })
        /\ docAnalysis.undocumentedSymbols =
               SliceTo(DocUndocumented(DocFileLines), MaxUndocumentedSymbols)

(***************************************************************************)
(* C27                                                                     *)
(***************************************************************************)
\* C27: once a node of the workflow has failed, no later node does its
\* work: currentStep stays "error" to the end of the run, and save_results
\* writes no report file in a run in which an earlier node failed.
C27_NoWorkAfterAFailure ==
    [][/\ agentState.currentStep = "error" => agentState'.currentStep = "error"
       /\ Has(agentState, "error") => reportFiles' = reportFiles]_vars

(***************************************************************************)
(* C28                                                                     *)
(***************************************************************************)
\* the call has returned or thrown
RetrySettled == retryPhase \in {"returned", "thrown"}

\* how often fn has been invoked
Invocations == Len(outcomes) + (IF retryPhase = "awaiting" THEN 1 ELSE 0)

\* fn rejected with ECONNREFUSED or with a failed fetch
NetworkFailure(outcome) == outcome.settled = "rejected" /\ outcome.error \in NetworkErrors

\* fn rejected with some other error
OtherFailure(outcome) == outcome.settled = "rejected" /\ outcome.error \in OtherErrors

\* the call settles as its last invocation of fn did, after one to maxRetries
\* invocations, and an error that is not the last one allowed is rethrown
\* only if it is no network error
RetrySettlesAsFn ==
    RetrySettled =>
        /\ Invocations \in 1..maxRetries
        /\ LET last == outcomes[Len(outcomes)]
           IN  IF retryPhase = "returned"
               THEN last.settled = "resolved" /\ retryResult = last.value
               ELSE /\ last.settled = "rejected" /\ retryResult = last.error
                    /\ (OtherFailure(last) \/ Len(outcomes) = maxRetries)

\* every invocation but the first follows a network error and a sleep, and
\* the sleeps double
RetryOnlyAfterSleep ==
    /\ Invocations <= Len(waits) + 1
    /\ Len(waits) <= Len(outcomes)
    /\ \A k \in 1..Len(waits) :
           NetworkFailure(outcomes[k]) /\ waits[k] = InitialDelay * 2 ^ (k - 1)

\* an error that is no network error ends the call at once
RetryNotForOtherErrors ==
    \A k \in 1..Len(outcomes) :
        OtherFailure(outcomes[k]) =>
            k = Len(outcomes) /\ retryPhase = "thrown" /\ retryResult = outcomes[k].error

\* C28: retryWithBackoff always terminates, after invoking fn at least once
\* and at most maxRetries times; it returns the first successful result,
\* invokes fn again only after a network error and a sleep whose delay
\* doubles from attempt to attempt, rethrows any other error at once, and
\* rethrows the error of the last attempt.
C28_RetryTerminatesWithinMaxRetries ==
    /\ [](RetrySettlesAsFn /\ RetryOnlyAfterSleep /\ RetryNotForOtherErrors)
    /\ <>RetrySettled

\* the third invocation succeeded, after sleeps of 1000 and 2000 ms
C28_Witness ==
    /\ retryPhase = "returned"
    /\ Len(outcomes) = maxRetries
    /\ waits = << InitialDelay, 2 * InitialDelay >>
    /\ retryResult \in FnValues

(***************************************************************************)
(* C29                                                                     *)
(***************************************************************************)
\* the finding, the risk and the recommendation of low test coverage; the
\* findings are texts and tuples of texts and numbers, told apart as written
LowTestFinding(result) ==
    \E k \in 1..Len(result.findings) :
        StartsWith(ToString(result.findings[k]), "<<\"Low test coverage\"")

LowTestRisk(result) ==
    \E k \in 1..Len(result.risks) :
        result.risks[k] = [level |-> "high",
                           description |->
                               "Insufficient test coverage increases regression risk"]

LowTestRecommendation(result) ==
    \E k \in 1..Len(result.recommendations) :
        result.recommendations[k] = "Implement mandatory test coverage requirements"

\* the least ratio of test additions that is not low, in percent
EnoughTests == 20

\* C29: the findings of generateAnalysisResult agree with the metrics it
\* reports: for a mapping with at least one entry the finding "Low test
\* coverage", with its high risk and its recommendation, is there exactly
\* when the returned metrics.testToCodeRatio is below 20.
C29_LowCoverageMatchesTheRatio ==
    (pc = "generateAnalysisResult" /\ Len(prMetrics) > 0) =>
        LET low == RatLess(analysis.metrics.testToCodeRatio, Int2Rat(EnoughTests))
        IN  /\ LowTestFinding(analysis) = low
            /\ LowTestRisk(analysis) = low
            /\ LowTestRecommendation(analysis) = low

(***************************************************************************)
(* C30                                                                     *)
(***************************************************************************)
\* every element of the list returned is an element of the list given, and
\* no element of the list given is returned twice
TakenFrom(result, given) ==
    \E from \in [1..Len(result) -> 1..Len(given)] :
        /\ \A k \in 1..Len(result) : result[k] = given[from[k]]
        /\ \A j, k \in 1..Len(result) : from[j] = from[k] => j = k

\* C30: selectPRs never modifies its input: for every criteria the list
\* given holds the same elements in the same order after the call, and the
\* list returned holds only elements of the list given, each at most once,
\* so that it is no longer than the list given.
C30_SelectPRsLeavesItsInput ==
    /\ [][prs' = prs]_vars
    /\ [](pc = "selectPRs" =>
              /\ TakenFrom(selectedPRs, prs)
              /\ Len(selectedPRs) <= Len(prs))

\* a call that returned the pull requests given in another order
C30_Witness ==
    /\ pc = "selectPRs"
    /\ Len(selectedPRs) = Len(prs)
    /\ selectedPRs # prs
    /\ prSelection \in {"recent", "largest 3"}
====
